---- MODULE Spec2Model ----
(***************************************************************************)
(* A model of the stdb time-series engine: the column store                *)
(* (src/stdb/storage/column_store.cc), its write sessions, the append      *)
(* trees, the write-ahead log with crash and recovery, the two-level       *)
(* locking of concurrent writers and the push-cursor protocol of queries.  *)
(***************************************************************************)
EXTENDS Integers, Sequences, FiniteSets, TLC

(***************************************************************************)
(* Bounds of the model.                                                    *)
(***************************************************************************)
MaxId == 2          \* number of series ids
MaxTs == 2          \* timestamps are 1..MaxTs
MaxWrites == 2      \* write calls per run
MaxCrashes == 1     \* crashes per run
MaxSessions == 1    \* write sessions
LeafCap == 2        \* entries a leaf holds before it is sealed
FrameCap == 2       \* records a WAL frame holds before it is flushed
VolCap == 2         \* records one WAL volume holds
NVolumes == 1       \* volumes of the circular input log

STARTING_SERIES_ID == 1024
Ids == STARTING_SERIES_ID..(STARTING_SERIES_ID + MaxId - 1)
Timestamps == 1..MaxTs
Sessions == 1..MaxSessions
EMPTY_ADDR == 0

PAYLOAD_FLOAT == "FLOAT"
PAYLOAD_EVENT == "EVENT"
PAYLOAD_OTHER == "OTHER"   \* any payload type that is neither float nor event
PayloadTypes == {PAYLOAD_FLOAT, PAYLOAD_EVENT, PAYLOAD_OTHER}

OK == "OK"
OK_FLUSH_NEEDED == "OK_FLUSH_NEEDED"
FAIL_BAD_VALUE == "FAIL_BAD_VALUE"
FAIL_BAD_ID == "FAIL_BAD_ID"
Success == {OK, OK_FLUSH_NEEDED}

(***************************************************************************)
(* Samples.  A sample carries both members of its payload: float64 and     *)
(* the event bytes.  Only the member selected by type is meaningful; the   *)
(* float64 of an event sample is not its event (Garbage).                  *)
(***************************************************************************)
Garbage == 99
FloatVal(ts) == 10 * ts
EventVal(ts) == 100 + ts

MkSample(id, ts, ty) ==
  [paramid |-> id, timestamp |-> ts, type |-> ty,
   float64 |-> IF ty = PAYLOAD_FLOAT THEN FloatVal(ts) ELSE Garbage,
   data |-> IF ty = PAYLOAD_EVENT THEN EventVal(ts) ELSE 0]

\* what a series stores for a sample: a number or a blob
NumEntry(ts, v) == [ts |-> ts, kind |-> "num", val |-> v]
BlobEntry(ts, v) == [ts |-> ts, kind |-> "blob", val |-> v]
EntryOf(s) ==
  IF s.type = PAYLOAD_EVENT THEN BlobEntry(s.timestamp, s.data)
  ELSE NumEntry(s.timestamp, s.float64)

(***************************************************************************)
(* Sequence helpers.                                                       *)
(***************************************************************************)
RECURSIVE SeqMax(_)
SeqMax(q) == IF q = <<>> THEN 0
             ELSE LET m == SeqMax(Tail(q)) IN IF Head(q).ts > m THEN Head(q).ts ELSE m

RECURSIVE SelectEntries(_, _, _)
SelectEntries(q, lo, hi) ==
  IF q = <<>> THEN <<>>
  ELSE IF Head(q).ts >= lo /\ Head(q).ts < hi
       THEN <<Head(q)>> \o SelectEntries(Tail(q), lo, hi)
       ELSE SelectEntries(Tail(q), lo, hi)

RECURSIVE Reverse(_)
Reverse(q) == IF q = <<>> THEN <<>> ELSE Reverse(Tail(q)) \o <<Head(q)>>

RECURSIVE OfKind(_, _)
OfKind(q, k) ==
  IF q = <<>> THEN <<>>
  ELSE IF Head(q).kind = k THEN <<Head(q)>> \o OfKind(Tail(q), k)
       ELSE OfKind(Tail(q), k)

Count(q, e) == Cardinality({i \in DOMAIN q : q[i] = e})
InSeq(q, e) == \E i \in DOMAIN q : q[i] = e
IsPrefix(p, q) == Len(p) <= Len(q) /\ SubSeq(q, 1, Len(p)) = p

RECURSIVE SetToSeq(_)
SetToSeq(S) == IF S = {} THEN <<>>
               ELSE LET m == CHOOSE x \in S : \A y \in S : x <= y
                    IN <<m>> \o SetToSeq(S \ {m})

(***************************************************************************)
(* Block store: a sequence of sealed leaf blocks; the address of a block   *)
(* is its index.  A block links to the block sealed before it in the same  *)
(* series.                                                                 *)
(***************************************************************************)
RECURSIVE Chain(_, _)
Chain(bs, addr) ==
  IF addr = EMPTY_ADDR \/ addr > Len(bs) THEN <<>>
  ELSE Chain(bs, bs[addr].prev) \o bs[addr].data

(***************************************************************************)
(* NB+tree extents list of one series.  A rescue-point list has one slot   *)
(* per level: <<leaf-level address, root address>>.                        *)
(***************************************************************************)
NoRoots == <<>>
TopAddr(rp) == IF rp = <<>> THEN EMPTY_ADDR
               ELSE IF rp[1] # EMPTY_ADDR THEN rp[1] ELSE rp[2]

EmptyTree == [init |-> FALSE, leaf |-> <<>>, roots |-> NoRoots, last |-> 0]
NewTree(rp) == [init |-> FALSE, leaf |-> <<>>, roots |-> rp, last |-> 0]

repair_status(rp) ==
  LET n == Cardinality({i \in DOMAIN rp : rp[i] # EMPTY_ADDR})
  IN IF n = 1 /\ rp[Len(rp)] # EMPTY_ADDR THEN "OK"
     ELSE IF n > 0 THEN "REPAIR" ELSE "SKIP"

\* the samples a tree holds: its sealed blocks, then its open leaf
TreeContents(t, bs) == Chain(bs, TopAddr(t.roots)) \o t.leaf

force_init(t, bs) ==
  IF t.init THEN t
  ELSE [t EXCEPT !.init = TRUE, !.leaf = <<>>,
                 !.last = SeqMax(Chain(bs, TopAddr(t.roots)))]

\* seal the open leaf into a new block
SealLeaf(t, bs, id) ==
  LET blk == [id |-> id, prev |-> TopAddr(t.roots), data |-> t.leaf]
  IN [tree |-> [t EXCEPT !.leaf = <<>>, !.roots = <<Len(bs) + 1, EMPTY_ADDR>>],
      bs |-> Append(bs, blk)]

NBAppend(t0, bs, id, e, allow_duplicates) ==
  LET t == force_init(t0, bs) IN
  IF ~allow_duplicates /\ e.ts < t.last
  THEN [tree |-> t, bs |-> bs, res |-> FAIL_BAD_VALUE]
  ELSE LET t1 == [t EXCEPT !.leaf = Append(t.leaf, e),
                           !.last = IF e.ts > t.last THEN e.ts ELSE t.last]
       IN IF Len(t1.leaf) >= LeafCap
          THEN LET s == SealLeaf(t1, bs, id)
               IN [tree |-> s.tree, bs |-> s.bs, res |-> OK_FLUSH_NEEDED]
          ELSE [tree |-> t1, bs |-> bs, res |-> OK]

get_roots(t) == t.roots

NBClose(t, bs, id) ==
  LET s == IF t.leaf # <<>> THEN SealLeaf(t, bs, id) ELSE [tree |-> t, bs |-> bs]
      top == TopAddr(s.tree.roots)
      rp == IF top = EMPTY_ADDR THEN NoRoots ELSE <<EMPTY_ADDR, top>>
  IN [tree |-> [s.tree EXCEPT !.init = FALSE, !.roots = rp], bs |-> s.bs, rp |-> rp]

\* search(begin, end): [begin, end) ascending, (end, begin] descending
NBSearch(t, bs, kind, begin, end) ==
  LET all == OfKind(TreeContents(t, bs), kind)
  IN IF begin <= end THEN SelectEntries(all, begin, end)
     ELSE Reverse(SelectEntries(all, end + 1, begin + 1))

(***************************************************************************)
(* ColumnStore.  A store value cs holds columns_ (cols: the ids present,   *)
(* tree: the tree of each), the member rescue_points_ (rps) and the block  *)
(* store bs the trees write to.                                            *)
(***************************************************************************)
NewStore(bs) == [cols |-> {}, tree |-> [i \in Ids |-> EmptyTree],
                 rps |-> [i \in Ids |-> NoRoots], bs |-> bs]

\* tree->append(ts, float64) / tree->append(ts, pdata, sz) on columns_[id]
TreeAppend(cs, id, e, allow_duplicates) ==
  LET r == NBAppend(cs.tree[id], cs.bs, id, e, allow_duplicates)
  IN [cs |-> [cs EXCEPT !.tree[id] = r.tree, !.bs = r.bs], res |-> r.res]

\* a write that fills rescue_points after every append
CSWrite_rootsAlways(cs, sample, rp, cache, use_cache) ==
  LET id == sample.paramid IN
  IF id \in cs.cols
  THEN LET a == IF sample.type = PAYLOAD_FLOAT
                THEN TreeAppend(cs, id, NumEntry(sample.timestamp, sample.float64), FALSE)
                ELSE IF sample.type = PAYLOAD_EVENT
                THEN TreeAppend(cs, id, BlobEntry(sample.timestamp, sample.data), FALSE)
                ELSE [cs |-> cs, res |-> OK]
       IN [cs |-> a.cs, res |-> a.res,
           rp |-> get_roots(a.cs.tree[id]),
           cache |-> IF use_cache THEN cache \cup {id} ELSE cache]
  ELSE [cs |-> cs, res |-> FAIL_BAD_ID, rp |-> rp, cache |-> cache]

\* ColumnStore::write(sample, rescue_points, cache_or_null); a null cache is
\* given as use_cache = FALSE.  The whole body runs under table_lock_.
CSWrite(cs, sample, rp, cache, use_cache) ==
  LET id == sample.paramid IN
  IF id \in cs.cols
  THEN LET a == IF sample.type = PAYLOAD_FLOAT
                THEN TreeAppend(cs, id, NumEntry(sample.timestamp, sample.float64), FALSE)
                ELSE IF sample.type = PAYLOAD_EVENT
                THEN TreeAppend(cs, id, BlobEntry(sample.timestamp, sample.data), FALSE)
                ELSE [cs |-> cs, res |-> OK]
       IN [cs |-> a.cs, res |-> a.res,
           rp |-> IF a.res = OK_FLUSH_NEEDED THEN get_roots(a.cs.tree[id]) ELSE rp,
           cache |-> IF use_cache THEN cache \cup {id} ELSE cache]
  ELSE [cs |-> cs, res |-> FAIL_BAD_ID, rp |-> rp, cache |-> cache]

\* a recovery_write that does not hand allow_duplicates to the tree, so the
\* replay keeps the ordering check of normal writes
CSRecoveryWrite_ordered(cs, sample, allow_duplicates) ==
  LET id == sample.paramid IN
  IF id \in cs.cols
  THEN TreeAppend(cs, id, NumEntry(sample.timestamp, sample.float64), FALSE)
  ELSE [cs |-> cs, res |-> FAIL_BAD_ID]

\* ColumnStore::recovery_write(sample, allow_duplicates)
CSRecoveryWrite(cs, sample, allow_duplicates) ==
  LET id == sample.paramid IN
  IF id \in cs.cols
  THEN TreeAppend(cs, id, NumEntry(sample.timestamp, sample.float64), allow_duplicates)
  ELSE [cs |-> cs, res |-> FAIL_BAD_ID]

\* a session write whose cached path appends the float64 field of every
\* sample, event samples included
SessWrite_float64(cs, cache, sample, rp) ==
  LET id == sample.paramid IN
  IF sample.type = PAYLOAD_FLOAT \/ sample.type = PAYLOAD_EVENT
  THEN IF id \in cache
       THEN LET a == TreeAppend(cs, id, NumEntry(sample.timestamp, sample.float64), FALSE)
            IN [cs |-> a.cs, res |-> a.res,
                rp |-> IF a.res = OK_FLUSH_NEEDED THEN get_roots(a.cs.tree[id]) ELSE rp,
                cache |-> cache]
       ELSE CSWrite(cs, sample, rp, cache, TRUE)
  ELSE [cs |-> cs, res |-> FAIL_BAD_VALUE, rp |-> rp, cache |-> cache]

\* CStoreSession::write(sample, rescue_points) with the session's cache_
SessWrite(cs, cache, sample, rp) ==
  LET id == sample.paramid IN
  IF sample.type = PAYLOAD_FLOAT \/ sample.type = PAYLOAD_EVENT
  THEN IF id \in cache
       THEN LET a == TreeAppend(cs, id, EntryOf(sample), FALSE)
            IN [cs |-> a.cs, res |-> a.res,
                rp |-> IF a.res = OK_FLUSH_NEEDED THEN get_roots(a.cs.tree[id]) ELSE rp,
                cache |-> cache]
       ELSE CSWrite(cs, sample, rp, cache, TRUE)
  ELSE [cs |-> cs, res |-> FAIL_BAD_VALUE, rp |-> rp, cache |-> cache]

\* a create_new_column that puts a new tree in the place of the column it finds
create_new_column_replace(cs, id) ==
  [cs |-> [cs EXCEPT !.cols = @ \cup {id},
                     !.tree[id] = force_init(EmptyTree, cs.bs)],
   status |-> "Ok"]

\* ColumnStore::create_new_column(id)
create_new_column(cs, id) ==
  IF id \in cs.cols THEN [cs |-> cs, status |-> "BadArg"]
  ELSE [cs |-> [cs EXCEPT !.cols = @ \cup {id},
                          !.tree[id] = force_init(EmptyTree, cs.bs)],
        status |-> "Ok"]

\* one column of ColumnStore::close: an initialized tree is closed and its
\* rescue points are put into the result
CloseOne(acc, id) ==
  IF id \in acc.cs.cols /\ acc.cs.tree[id].init
  THEN LET c == NBClose(acc.cs.tree[id], acc.cs.bs, id)
       IN [cs |-> [acc.cs EXCEPT !.tree[id] = c.tree, !.bs = c.bs],
           result |-> [acc.result EXCEPT ![id] = c.rp],
           closed |-> acc.closed \cup {id}]
  ELSE acc

RECURSIVE CloseSeq(_, _)
CloseSeq(acc, ids) ==
  IF ids = <<>> THEN acc ELSE CloseSeq(CloseOne(acc, Head(ids)), Tail(ids))

\* ColumnStore::close(ids): result maps the ids in closed to rescue points
CSCloseIds(cs, ids) ==
  CloseSeq([cs |-> cs, result |-> [i \in Ids |-> NoRoots], closed |-> {}], ids)

\* ColumnStore::close()
CSClose(cs) == CSCloseIds(cs, SetToSeq(cs.cols))

\* a restore that reports every tree it initializes, in need of repair or not
RestoreOne_allInitialized(acc, id, rescue_points, force) ==
  IF acc.status # "Ok" THEN acc
  ELSE IF id \in acc.cs.cols
  THEN [acc EXCEPT !.status = "BadArg", !.ids2recover = {}]
  ELSE
    LET status == repair_status(rescue_points)
        cs1 == [acc.cs EXCEPT !.cols = @ \cup {id}, !.tree[id] = NewTree(rescue_points)]
    IN IF force \/ status = "REPAIR"
       THEN LET cs2 == [cs1 EXCEPT !.tree[id] = force_init(cs1.tree[id], cs1.bs)]
                rec == acc.ids2recover \cup {id}
            IN IF ~force
               THEN LET c == NBClose(cs2.tree[id], cs2.bs, id)
                    IN [cs |-> [cs2 EXCEPT !.tree[id] = c.tree, !.bs = c.bs,
                                           !.rps[id] = c.rp],
                        status |-> "Ok", ids2recover |-> rec]
               ELSE [cs |-> cs2, status |-> "Ok", ids2recover |-> rec]
       ELSE [cs |-> cs1, status |-> "Ok", ids2recover |-> acc.ids2recover]

\* one entry of the mapping in ColumnStore::open_or_restore
RestoreOne(acc, id, rescue_points, force) ==
  IF acc.status # "Ok" THEN acc
  ELSE IF id \in acc.cs.cols
  THEN [acc EXCEPT !.status = "BadArg", !.ids2recover = {}]
  ELSE
    LET status == repair_status(rescue_points)
        cs1 == [acc.cs EXCEPT !.cols = @ \cup {id}, !.tree[id] = NewTree(rescue_points)]
    IN IF force \/ status = "REPAIR"
       THEN LET cs2 == [cs1 EXCEPT !.tree[id] = force_init(cs1.tree[id], cs1.bs)]
                rec == IF status = "REPAIR" THEN acc.ids2recover \cup {id}
                       ELSE acc.ids2recover
            IN IF ~force
               THEN LET c == NBClose(cs2.tree[id], cs2.bs, id)
                    IN [cs |-> [cs2 EXCEPT !.tree[id] = c.tree, !.bs = c.bs,
                                           !.rps[id] = c.rp],
                        status |-> "Ok", ids2recover |-> rec]
               ELSE [cs |-> cs2, status |-> "Ok", ids2recover |-> rec]
       ELSE [cs |-> cs1, status |-> "Ok", ids2recover |-> acc.ids2recover]

RECURSIVE RestoreSeq(_, _, _, _)
RestoreSeq(acc, ids, mapping, force) ==
  IF ids = <<>> THEN acc
  ELSE RestoreSeq(RestoreOne(acc, Head(ids), mapping[Head(ids)], force),
                  Tail(ids), mapping, force)

\* ColumnStore::open_or_restore(mapping, force_init); keys: the ids of mapping
open_or_restore(cs, keys, mapping, force) ==
  RestoreSeq([cs |-> cs, status |-> "Ok", ids2recover |-> {}],
             SetToSeq(keys), mapping, force)

\* ColumnStore::iterate as used by scan / scan_events: one operator per id
IterInit(cs, id) == [cs EXCEPT !.tree[id] = force_init(cs.tree[id], cs.bs)]
\* a scan whose ascending range includes its end
CSScan_inclusiveEnd(cs, id, begin, end) ==
  NBSearch(cs.tree[id], cs.bs, "num", begin, IF begin < end THEN end + 1 ELSE end)
CSScan(cs, id, begin, end) == NBSearch(cs.tree[id], cs.bs, "num", begin, end)
CSScanEvents(cs, id, begin, end) == NBSearch(cs.tree[id], cs.bs, "blob", begin, end)

(***************************************************************************)
(* The storage engine around the column store: series index, catalog,      *)
(* write sessions with their WAL frames, the input log, crash, recovery.   *)
(***************************************************************************)
Names == {"a", "b"}

VARIABLES
  cstore,     \* the ColumnStore and its block store
  index,      \* series index: name -> id, 0 when the name is unknown
  metaNames,  \* catalog: the names it holds, name -> id
  meta,       \* catalog: stored rescue points, id -> rescue-point list
  pending,    \* rescue points waiting for the worker: id -> list
  pendingIds, \* the ids pending holds a list for
  sess,       \* write sessions: open, cache_, WAL frame, names seen
  wal,        \* volumes of the input log on disk, oldest first
  mode,       \* "up" | "down" (killed, not yet recovered)
  acked,      \* samples whose session write returned success
  logged,     \* samples whose WAL record reached the disk
  nwrites, ncrashes,
  last        \* the last operation and what it returned

storeVars == <<cstore, index, metaNames, meta, pending, pendingIds, sess, wal,
               mode, acked, logged, nwrites, ncrashes, last>>

VARIABLES
  pc,          \* where each thread is in CStoreSession::write
  job,         \* the sample, path, tree snapshot and result of each thread
  table_lock,  \* the thread holding table_lock_, NoThread when free
  tree_lock,   \* the lock of each tree
  tcache,      \* cache_ of the session of each thread
  kept         \* history: the entries appended with success, per series

concVars == <<pc, job, table_lock, tree_lock, tcache, kept>>

VARIABLES
  query,   \* the query the engine runs: its position, rows left, flags
  cursor   \* the InternalCursor of the query, with the calls it received

cursorVars == <<query, cursor>>

VARIABLES
  scan,    \* the last scan query: its ids, range, order and the rows pushed
  gm,      \* the series index of the storage (a PlainSeriesMatcher)
  lm,      \* per session: its local matcher and its place in init_series_id
  peer,    \* a matcher that mirrors the names pulled from the index
  ihist,   \* history: ids issued, names delivered by pull_new_series
  amp      \* the input log switch of the store and the history of its evictions

VARIABLES
  rdbuf,   \* a ReadBuffer between a server and a reader of its bytes
  resp,    \* a RESPProtocolParser with its rdbuf_, dictionary and consumer
  tsdb     \* an OpenTSDBProtocolParser with its rdbuf_ and consumer

protoVars == <<rdbuf, resp, tsdb>>
extVars == <<scan, gm, lm, peer, ihist, amp, protoVars>>

ClosedSession == [open |-> FALSE, cache |-> {}, frame |-> <<>>, local |-> {}]
OpenedSession == [open |-> TRUE, cache |-> {}, frame |-> <<>>, local |-> {}]
NoOp == [op |-> "none"]

InitStore ==
  /\ cstore = NewStore(<<>>)
  /\ index = [n \in Names |-> 0]
  /\ metaNames = [n \in Names |-> 0]
  /\ meta = [i \in Ids |-> NoRoots]
  /\ pending = [i \in Ids |-> NoRoots]
  /\ pendingIds = {}
  /\ sess = [s \in Sessions |-> OpenedSession]
  /\ wal = <<>>
  /\ mode = "up"
  /\ acked = {}
  /\ logged = {}
  /\ nwrites = 0
  /\ ncrashes = 0
  /\ last = NoOp

NameRec(n, id) == [rec |-> "name", name |-> n, id |-> id]
SampleRec(s) == [rec |-> "sample", sample |-> s]

NextSeriesId(ix) ==
  LET used == {ix[n] : n \in Names} IN
  IF used = {0} THEN STARTING_SERIES_ID
  ELSE 1 + (CHOOSE m \in used : \A x \in used : x <= m)

RECURSIVE SamplesIn(_)
SamplesIn(q) ==
  IF q = <<>> THEN {}
  ELSE (IF Head(q).rec = "sample" THEN {Head(q).sample} ELSE {}) \cup SamplesIn(Tail(q))

RECURSIVE Flatten(_)
Flatten(vs) == IF vs = <<>> THEN <<>> ELSE Head(vs) \o Flatten(Tail(vs))

\* the worker's metadata sync: names and pending rescue points go to the catalog
SyncMeta(m, pend, pids) == [i \in Ids |-> IF i \in pids THEN pend[i] ELSE m[i]]

\* A frame goes to the newest volume; a full volume set is rotated: the series
\* with samples in the oldest volume are closed (ColumnStore::close(ids)), the
\* catalog is synced, and the oldest volume is overwritten.
\* st: [cs, meta, metaNames, pending, pendingIds, wal]
RotateWal(st, ix) ==
  IF Len(st.wal) < NVolumes
  THEN [st EXCEPT !.wal = Append(st.wal, <<>>)]
  ELSE LET stale == {s.paramid : s \in SamplesIn(Head(st.wal))}
           c == CSCloseIds(st.cs, SetToSeq(stale))
           pend == [i \in Ids |-> IF i \in c.closed THEN c.result[i] ELSE st.pending[i]]
           pids == st.pendingIds \cup c.closed
       IN [cs |-> c.cs, meta |-> SyncMeta(st.meta, pend, pids), metaNames |-> ix,
           pending |-> pend, pendingIds |-> {},
           wal |-> Append(Tail(st.wal), <<>>)]

WriteFrame(st, frame, ix) ==
  IF frame = <<>> THEN st
  ELSE LET st1 == IF st.wal = <<>> \/ Len(st.wal[Len(st.wal)]) + Len(frame) > VolCap
                  THEN RotateWal(st, ix) ELSE st
           k == Len(st1.wal)
       IN [st1 EXCEPT !.wal[k] = @ \o frame]

CurSt == [cs |-> cstore, meta |-> meta, metaNames |-> metaNames,
          pending |-> pending, pendingIds |-> pendingIds, wal |-> wal]

SetSt(st) ==
  /\ cstore' = st.cs
  /\ meta' = st.meta
  /\ metaNames' = st.metaNames
  /\ pending' = st.pending
  /\ pendingIds' = st.pendingIds
  /\ wal' = st.wal

\* a session flushes its frame to the input log
FlushInto(st, frame, ix) == WriteFrame(st, frame, ix)

\* Storage::init_series_id for a name the index does not hold: the index issues
\* the next id and the column is created
AddSeries(n) ==
  /\ UNCHANGED <<concVars, cursorVars, extVars>>
  /\ mode = "up"
  /\ index[n] = 0
  /\ NextSeriesId(index) \in Ids
  /\ index' = [index EXCEPT ![n] = NextSeriesId(index)]
  /\ cstore' = create_new_column(cstore, NextSeriesId(index)).cs
  /\ last' = NoOp
  /\ UNCHANGED <<metaNames, meta, pending, pendingIds, sess, wal, mode, acked,
                 logged, nwrites, ncrashes>>

NameOf(ix, id) == CHOOSE n \in Names : ix[n] = id

\* StorageSession::write: WAL append (with the declaration of a series the
\* session uses for the first time), then CStoreSession::write, then the rescue
\* points of a sealed block are handed to the worker
SessionWrite(s, id, ts, ty) ==
  /\ UNCHANGED <<concVars, cursorVars, extVars>>
  /\ mode = "up" /\ sess[s].open
  /\ nwrites < MaxWrites
  /\ id \in {index[n] : n \in Names}
  /\ LET sample == MkSample(id, ts, ty)
         decl == IF id \in sess[s].local THEN <<>>
                 ELSE <<NameRec(NameOf(index, id), id)>>
         frame1 == sess[s].frame \o decl \o <<SampleRec(sample)>>
         full == Len(frame1) >= FrameCap
         st == IF full THEN FlushInto(CurSt, frame1, index) ELSE CurSt
         w == SessWrite(st.cs, sess[s].cache, sample, NoRoots)
         flushed == w.res = OK_FLUSH_NEEDED
     IN /\ SetSt([st EXCEPT !.cs = w.cs,
                            !.pending = IF flushed THEN [@ EXCEPT ![id] = w.rp] ELSE @,
                            !.pendingIds = IF flushed THEN @ \cup {id} ELSE @])
        /\ sess' = [sess EXCEPT ![s].cache = w.cache,
                                ![s].local = @ \cup {id},
                                ![s].frame = IF full THEN <<>> ELSE frame1]
        /\ logged' = IF full THEN logged \cup SamplesIn(frame1) ELSE logged
        /\ acked' = IF w.res \in Success THEN acked \cup {sample} ELSE acked
        /\ last' = [op |-> "write", session |-> s, sample |-> sample, res |-> w.res,
                    path |-> IF ty = PAYLOAD_OTHER THEN "none"
                             ELSE IF id \in sess[s].cache THEN "cached" ELSE "uncached",
                    pre |-> TreeContents(st.cs.tree[id], st.cs.bs),
                    rp |-> w.rp]
  /\ nwrites' = nwrites + 1
  /\ UNCHANGED <<index, mode, ncrashes>>

\* ColumnStore::write called on the store itself, without a session or cache
DirectWrite(id, ts, ty) ==
  /\ UNCHANGED <<concVars, cursorVars, extVars>>
  /\ mode = "up"
  /\ nwrites < MaxWrites
  /\ LET sample == MkSample(id, ts, ty)
         w == CSWrite(cstore, sample, NoRoots, {}, FALSE)
     IN /\ cstore' = w.cs
        /\ last' = [op |-> "write", session |-> 0, sample |-> sample, res |-> w.res,
                    path |-> "store",
                    pre |-> TreeContents(cstore.tree[id], cstore.bs),
                    rp |-> w.rp]
  /\ nwrites' = nwrites + 1
  /\ UNCHANGED <<index, metaNames, meta, pending, pendingIds, sess, wal, mode,
                 acked, logged, ncrashes>>

\* the worker publishes the pending rescue points and the new names
Publish ==
  /\ UNCHANGED <<concVars, cursorVars, extVars>>
  /\ mode = "up"
  /\ pendingIds # {} \/ metaNames # index
  /\ meta' = SyncMeta(meta, pending, pendingIds)
  /\ metaNames' = index
  /\ pendingIds' = {}
  /\ last' = NoOp
  /\ UNCHANGED <<cstore, index, pending, sess, wal, mode, acked, logged,
                 nwrites, ncrashes>>

\* the frame of a session is flushed to the input log
FlushFrame(s) ==
  /\ UNCHANGED <<concVars, cursorVars, extVars>>
  /\ mode = "up" /\ sess[s].open
  /\ sess[s].frame # <<>>
  /\ SetSt(FlushInto(CurSt, sess[s].frame, index))
  /\ logged' = logged \cup SamplesIn(sess[s].frame)
  /\ sess' = [sess EXCEPT ![s].frame = <<>>]
  /\ last' = NoOp
  /\ UNCHANGED <<index, mode, acked, nwrites, ncrashes>>

\* a session is destroyed: its frame is flushed, its cache is dropped
CloseSession(s) ==
  /\ UNCHANGED <<concVars, cursorVars, extVars>>
  /\ mode = "up" /\ sess[s].open
  /\ SetSt(FlushInto(CurSt, sess[s].frame, index))
  /\ logged' = logged \cup SamplesIn(sess[s].frame)
  /\ sess' = [sess EXCEPT ![s] = ClosedSession]
  /\ last' = NoOp
  /\ UNCHANGED <<index, mode, acked, nwrites, ncrashes>>

\* create_write_session
OpenSession(s) ==
  /\ UNCHANGED <<concVars, cursorVars, extVars>>
  /\ mode = "up" /\ ~sess[s].open
  /\ sess' = [sess EXCEPT ![s] = OpenedSession]
  /\ last' = NoOp
  /\ UNCHANGED <<cstore, index, metaNames, meta, pending, pendingIds, wal, mode,
                 acked, logged, nwrites, ncrashes>>

\* Storage::_kill: everything in memory is gone; block store, catalog and the
\* volumes of the input log stay
Crash ==
  /\ UNCHANGED <<concVars, cursorVars, extVars>>
  /\ mode = "up"
  /\ ncrashes < MaxCrashes
  /\ cstore' = NewStore(cstore.bs)
  /\ index' = [n \in Names |-> 0]
  /\ pending' = [i \in Ids |-> NoRoots]
  /\ pendingIds' = {}
  /\ sess' = [s \in Sessions |-> ClosedSession]
  /\ mode' = "down"
  /\ ncrashes' = ncrashes + 1
  /\ last' = [op |-> "crash", index |-> index]
  /\ UNCHANGED <<metaNames, meta, wal, acked, logged, nwrites>>

\* one record of the input log replayed
ReplayOne(acc, r) ==
  IF r.rec = "name"
  THEN [cs |-> create_new_column(acc.cs, r.id).cs,
        ix |-> IF acc.ix[r.name] = 0 THEN [acc.ix EXCEPT ![r.name] = r.id] ELSE acc.ix]
  ELSE [cs |-> CSRecoveryWrite(acc.cs, r.sample, TRUE).cs, ix |-> acc.ix]

RECURSIVE Replay(_, _)
Replay(acc, recs) ==
  IF recs = <<>> THEN acc ELSE Replay(ReplayOne(acc, Head(recs)), Tail(recs))

\* run_recovery: load the catalog, open the store in restore mode, replay the
\* input log oldest first, publish the rescue points of close(), clear the log
Recover ==
  /\ UNCHANGED <<concVars, cursorVars, extVars>>
  /\ mode = "down"
  /\ LET keys == {metaNames[n] : n \in Names} \ {0}
         o == open_or_restore(cstore, keys, meta, FALSE)
         r == Replay([cs |-> o.cs, ix |-> metaNames], Flatten(wal))
         c == CSClose(r.cs)
     IN /\ cstore' = c.cs
        /\ index' = r.ix
        /\ metaNames' = r.ix
        /\ meta' = SyncMeta(meta, c.result, c.closed)
        /\ last' = [op |-> "recover", ids2recover |-> o.ids2recover,
                    before |-> last.index,
                    log |-> Flatten(wal),
                    restored |-> [i \in Ids |-> TreeContents(o.cs.tree[i], o.cs.bs)],
                    replayed |-> [i \in Ids |-> TreeContents(r.cs.tree[i], r.cs.bs)]]
  /\ wal' = <<>>
  /\ mode' = "up"
  /\ UNCHANGED <<pending, pendingIds, sess, acked, logged, nwrites, ncrashes>>

\* what a scan of one series over [begin, end) gives a session
QueryResult(cs, id, kind, begin, end) ==
  IF id \in cs.cols
  THEN NBSearch(IterInit(cs, id).tree[id], cs.bs, kind, begin, end)
  ELSE <<>>

\* a scan query of one series (ColumnStore::scan / scan_events via iterate)
Query(s, id) ==
  /\ UNCHANGED <<concVars, cursorVars, extVars>>
  /\ mode = "up" /\ sess[s].open
  /\ id \in cstore.cols
  /\ cstore' = IterInit(cstore, id)
  /\ last' = NoOp
  /\ UNCHANGED <<index, metaNames, meta, pending, pendingIds, sess, wal, mode,
                 acked, logged, nwrites, ncrashes>>

\* the storage engine: sessions, worker, input log, crash and recovery
(***************************************************************************)
(* Threads.  Sessions on several threads write through CStoreSession::write *)
(* one step at a time: the lock_guard on table_lock_ of ColumnStore::write, *)
(* the lookup in columns_, the lock of the tree, the append, the return.    *)
(***************************************************************************)
MaxThreads == 2
MaxJobs == 3
Threads == 1..MaxThreads
NoThread == 0

\* RWLock: the threads holding it for writing (w) and for reading (r)
FreeLock == [w |-> {}, r |-> {}]
wrlock(l, t) == [ok |-> l.w = {} /\ l.r = {}, lock |-> [l EXCEPT !.w = @ \cup {t}]]
rdlock(l, t) == [ok |-> l.w = {}, lock |-> [l EXCEPT !.r = @ \cup {t}]]
unlock(l, t) == [l EXCEPT !.w = @ \ {t}, !.r = @ \ {t}]

\* a guard of the tree lock that takes it for reading
UniqueLock_rdlock(l, t) == rdlock(l, t)

\* UniqueLock = LockGuard<RWLock, &RWLock::wrlock>
UniqueLock(l, t) == wrlock(l, t)

InitConc ==
  /\ pc = [t \in Threads |-> "idle"]
  /\ job = [t \in Threads |-> NoOp]
  /\ table_lock = NoThread
  /\ tree_lock = [i \in Ids |-> FreeLock]
  /\ tcache = [t \in Threads |-> {}]
  /\ kept = [i \in Ids |-> <<>>]

restOfStore == <<index, metaNames, meta, pending, pendingIds, sess, wal, mode,
                 acked, logged, ncrashes, last>>

\* ColumnStore::create_new_column on some thread, under table_lock_
ConcCreate(id) ==
  /\ table_lock = NoThread
  /\ id \notin cstore.cols
  /\ cstore' = create_new_column(cstore, id).cs
  /\ UNCHANGED <<concVars, cursorVars, extVars, nwrites, restOfStore>>

\* CStoreSession::write up to its cache lookup
ConcBegin(t, id, ts, ty) ==
  LET sample == MkSample(id, ts, ty) IN
  /\ pc[t] = "idle"
  /\ nwrites < MaxJobs
  /\ nwrites' = nwrites + 1
  /\ IF ty = PAYLOAD_FLOAT \/ ty = PAYLOAD_EVENT
     THEN IF id \in tcache[t]
          THEN /\ pc' = [pc EXCEPT ![t] = "tree_lock"]
               /\ job' = [job EXCEPT ![t] = [op |-> "write", sample |-> sample,
                                             path |-> "cached"]]
          ELSE /\ pc' = [pc EXCEPT ![t] = "table_lock"]
               /\ job' = [job EXCEPT ![t] = [op |-> "write", sample |-> sample,
                                             path |-> "store"]]
     ELSE /\ pc' = pc
          /\ job' = [job EXCEPT ![t] = [op |-> "done", sample |-> sample,
                                        path |-> "none", res |-> FAIL_BAD_VALUE]]
  /\ UNCHANGED <<cstore, table_lock, tree_lock, tcache, kept, restOfStore, cursorVars, extVars>>

\* ColumnStore::write: lock_guard on table_lock_, then columns_.find(id)
ConcTableLock(t) ==
  /\ pc[t] = "table_lock"
  /\ table_lock = NoThread
  /\ IF job[t].sample.paramid \in cstore.cols
     THEN /\ table_lock' = t
          /\ pc' = [pc EXCEPT ![t] = "tree_lock"]
          /\ job' = job
     ELSE /\ table_lock' = NoThread
          /\ pc' = [pc EXCEPT ![t] = "idle"]
          /\ job' = [job EXCEPT ![t] = [op |-> "done", sample |-> @.sample,
                                        path |-> @.path, res |-> FAIL_BAD_ID]]
  /\ UNCHANGED <<cstore, tree_lock, tcache, kept, nwrites, restOfStore, cursorVars, extVars>>

\* tree->append: take the lock of the tree and read the tree
ConcAppendEnter(t) ==
  LET id == job[t].sample.paramid
      g == UniqueLock(tree_lock[id], t) IN
  /\ pc[t] = "tree_lock"
  /\ g.ok
  /\ tree_lock' = [tree_lock EXCEPT ![id] = g.lock]
  /\ pc' = [pc EXCEPT ![t] = "appending"]
  /\ job' = [job EXCEPT ![t] = [op |-> "write", sample |-> @.sample,
                                path |-> @.path, snap |-> cstore.tree[id]]]
  /\ UNCHANGED <<cstore, table_lock, tcache, kept, nwrites, restOfStore, cursorVars, extVars>>

\* tree->append: write the tree, release its lock; then the rest of the
\* write: get_roots, the cache insert and the release of table_lock_
ConcAppendExit(t) ==
  LET sample == job[t].sample
      id == sample.paramid
      a == NBAppend(job[t].snap, cstore.bs, id, EntryOf(sample), FALSE) IN
  /\ pc[t] = "appending"
  /\ cstore' = [cstore EXCEPT !.tree[id] = a.tree, !.bs = a.bs]
  /\ tree_lock' = [tree_lock EXCEPT ![id] = unlock(@, t)]
  /\ kept' = IF a.res \in Success
             THEN [kept EXCEPT ![id] = Append(@, EntryOf(sample))] ELSE kept
  /\ job' = [job EXCEPT ![t] =
               [op |-> "done", sample |-> sample, path |-> @.path, res |-> a.res,
                rp |-> IF a.res = OK_FLUSH_NEEDED THEN get_roots(a.tree) ELSE NoRoots]]
  /\ IF job[t].path = "store"
     THEN /\ tcache' = [tcache EXCEPT ![t] = @ \cup {id}]
          /\ table_lock' = NoThread
     ELSE UNCHANGED <<tcache, table_lock>>
  /\ pc' = [pc EXCEPT ![t] = "idle"]
  /\ UNCHANGED <<nwrites, restOfStore, cursorVars, extVars>>

(***************************************************************************)
(* Query engine and cursor.  A query is parsed, then its rows go one by    *)
(* one through the last node of the pipeline to the InternalCursor, until  *)
(* the rows end, a put answers false, a read fails or the query is         *)
(* cancelled; the cursor is then completed or given the error.             *)
(***************************************************************************)
MaxRows == 3
BufCap == 2
MaxQueries == 2

StatusOk == "Ok"
QueryParsingError == "QueryParsingError"
Cancelled == "Cancelled"
ReadError == "Error"

\* a row passes the filter of the pipeline, is dropped by it, or fails to read
Rows == {"pass", "drop", "fail"}
RowSeqs == UNION {[1..n -> Rows] : n \in 0..MaxRows}

\* CursorMock(): broken records "Cursor invariant broken"; nput, nterm and
\* refused count the calls received and record a put that answered false
NewCursor == [done |-> FALSE, error |-> StatusOk, samples |-> 0,
              broken |-> FALSE, nput |-> 0, nterm |-> 0, refused |-> FALSE]

\* InternalCursor::put: false when the buffer of the consumer is full
put(c, row) ==
  [cursor |-> [c EXCEPT !.broken = @ \/ c.done, !.samples = @ + 1,
                        !.nput = @ + 1,
                        !.refused = @ \/ (c.samples + 1 >= BufCap)],
   ret |-> c.samples + 1 < BufCap]

complete(c) ==
  [c EXCEPT !.broken = @ \/ c.done, !.done = TRUE, !.nterm = @ + 1]

set_error(c, e) ==
  [c EXCEPT !.broken = @ \/ c.done, !.done = TRUE, !.error = e,
            !.nterm = @ + 1]

\* ExternalCursor::read: the consumer takes what the buffer holds
read(c) == [c EXCEPT !.samples = 0]

\* put of the filter node that feeds the cursor
NodePut(c, row) ==
  IF row = "pass" THEN put(c, row) ELSE [cursor |-> c, ret |-> TRUE]

\* an engine that pushes whenever rows are left, whatever the query's state
MayPush_anyState(qr) == ~qr.stop /\ qr.rows # <<>>

\* an engine that does not look at what put answered
MayPush_ignoreStop(qr) == qr.state = "running" /\ qr.rows # <<>>

\* the engine pushes the next row
MayPush(qr) == qr.state = "running" /\ ~qr.stop /\ qr.rows # <<>>

\* an engine that completes the cursor after it has reported the error
Terminate_both(c, status) ==
  IF status = StatusOk THEN complete(c) ELSE complete(set_error(c, status))

\* the end of a query: complete, or set_error with the status
Terminate(c, status) ==
  IF status = StatusOk THEN complete(c) ELSE set_error(c, status)

IdleQuery == [state |-> "idle", rows |-> <<>>, stop |-> FALSE,
              cancel |-> FALSE, n |-> 0]

InitQuery ==
  /\ query = IdleQuery
  /\ cursor = NewCursor

\* a new query with a new cursor: the request parses or it does not
QueryStart(valid, rows) ==
  /\ query.state # "running"
  /\ query.n < MaxQueries
  /\ IF valid
     THEN /\ cursor' = NewCursor
          /\ query' = [state |-> "running", rows |-> rows, stop |-> FALSE,
                       cancel |-> FALSE, n |-> query.n + 1]
     ELSE /\ cursor' = Terminate(NewCursor, QueryParsingError)
          /\ query' = [state |-> "finished", rows |-> <<>>, stop |-> FALSE,
                       cancel |-> FALSE, n |-> query.n + 1]
  /\ UNCHANGED <<storeVars, concVars, extVars>>

\* the cancel flag of the query is raised
QueryCancel ==
  /\ query.state = "running" /\ ~query.cancel
  /\ query' = [query EXCEPT !.cancel = TRUE]
  /\ UNCHANGED <<cursor, storeVars, concVars, extVars>>

\* the next row: a failed read ends the query, another row is pushed
QueryPush ==
  /\ MayPush(query)
  /\ IF Head(query.rows) = "fail"
     THEN /\ cursor' = Terminate(cursor, ReadError)
          /\ query' = [query EXCEPT !.state = "finished", !.rows = Tail(@)]
     ELSE LET r == NodePut(cursor, Head(query.rows))
          IN /\ cursor' = r.cursor
             /\ query' = [query EXCEPT !.rows = Tail(@), !.stop = ~r.ret]
  /\ UNCHANGED <<storeVars, concVars, extVars>>

\* the engine sees the cancel flag between two batches
QueryCancelled ==
  /\ query.state = "running" /\ query.cancel
  /\ cursor' = Terminate(cursor, Cancelled)
  /\ query' = [query EXCEPT !.state = "finished"]
  /\ UNCHANGED <<storeVars, concVars, extVars>>

\* stop(): no row is left, or a put answered false
QueryStop ==
  /\ query.state = "running" /\ ~query.cancel
  /\ query.rows = <<>> \/ query.stop
  /\ cursor' = Terminate(cursor, StatusOk)
  /\ query' = [query EXCEPT !.state = "finished"]
  /\ UNCHANGED <<storeVars, concVars, extVars>>

ConsumerRead ==
  /\ cursor.samples > 0
  /\ cursor' = read(cursor)
  /\ UNCHANGED <<query, storeVars, concVars, extVars>>

(***************************************************************************)
(* Scan queries.  The rows of each series come from ColumnStore::scan; in  *)
(* SERIES order they are concatenated in the order of the id list, in TIME *)
(* order they are merged by timestamp.                                     *)
(***************************************************************************)
MaxScanWrites == 3

TIME == "time"
SERIES == "series"
OrderBys == {TIME, SERIES}
RangeEnds == 0..(MaxTs + 1)

\* the id lists of a query: some of the ids, each once, in any order
IdLists ==
  {q \in UNION {[1..n -> Ids] : n \in 1..MaxId} :
     \A i, j \in DOMAIN q : q[i] = q[j] => i = j}

Row(id, e) == [paramid |-> id, timestamp |-> e.ts, value |-> e.val]

\* the rows ColumnStore::scan gives for one id
RowsOf(cs, id, begin, end) ==
  LET es == CSScan(IterInit(cs, id), id, begin, end)
  IN [k \in DOMAIN es |-> Row(id, es[k])]

\* a concatenation that starts from the last id when the range is reversed
RECURSIVE SeriesOrder_reversed(_, _, _, _)
SeriesOrder_reversed(cs, ids, begin, end) ==
  IF ids = <<>> THEN <<>>
  ELSE IF begin > end
  THEN SeriesOrder_reversed(cs, Tail(ids), begin, end) \o RowsOf(cs, Head(ids), begin, end)
  ELSE RowsOf(cs, Head(ids), begin, end) \o SeriesOrder_reversed(cs, Tail(ids), begin, end)

\* SERIES order: the rows of the i-th id, then those of the next
RECURSIVE SeriesOrder(_, _, _, _)
SeriesOrder(cs, ids, begin, end) ==
  IF ids = <<>> THEN <<>>
  ELSE RowsOf(cs, Head(ids), begin, end) \o SeriesOrder(cs, Tail(ids), begin, end)

\* a tie-break by ascending id in both directions
Before_ascending(a, b, forward) ==
  IF forward
  THEN a.timestamp < b.timestamp \/ (a.timestamp = b.timestamp /\ a.paramid < b.paramid)
  ELSE a.timestamp > b.timestamp \/ (a.timestamp = b.timestamp /\ a.paramid < b.paramid)

\* the order of the TIME merge: by (timestamp, id), both ascending for an
\* ascending range and both descending for a reversed one
Before(a, b, forward) ==
  IF forward
  THEN a.timestamp < b.timestamp \/ (a.timestamp = b.timestamp /\ a.paramid < b.paramid)
  ELSE a.timestamp > b.timestamp \/ (a.timestamp = b.timestamp /\ a.paramid > b.paramid)

\* a merge that takes the lists one after the other
RECURSIVE MergeRows_concat(_, _)
MergeRows_concat(lists, forward) ==
  IF lists = <<>> THEN <<>>
  ELSE Head(lists) \o MergeRows_concat(Tail(lists), forward)

\* TIME order: k-way merge of the rows of the series, best head first
RECURSIVE MergeRows(_, _)
MergeRows(lists, forward) ==
  LET live == {i \in DOMAIN lists : lists[i] # <<>>}
  IN IF live = {} THEN <<>>
     ELSE LET k == CHOOSE i \in live :
                     \A j \in live \ {i} : Before(Head(lists[i]), Head(lists[j]), forward)
          IN <<Head(lists[k])>> \o MergeRows([lists EXCEPT ![k] = Tail(@)], forward)

\* the rows a scan query pushes to its cursor
ScanQuery(cs, ids, begin, end, order) ==
  IF order = SERIES THEN SeriesOrder(cs, ids, begin, end)
  ELSE MergeRows([i \in DOMAIN ids |-> RowsOf(cs, ids[i], begin, end)], begin <= end)

\* written: history, the samples each series held when the scan ran
NoScan == [ids |-> <<>>, begin |-> 0, end |-> 0, order |-> TIME, out |-> <<>>,
           written |-> [i \in Ids |-> <<>>]]

InitScan == scan = NoScan

RECURSIVE IterInitAll(_, _)
IterInitAll(cs, ids) ==
  IF ids = <<>> THEN cs ELSE IterInitAll(IterInit(cs, Head(ids)), Tail(ids))

ScanCreate(id) ==
  /\ id \notin cstore.cols
  /\ cstore' = create_new_column(cstore, id).cs
  /\ UNCHANGED <<scan, kept, nwrites, restOfStore, pc, job, table_lock, tree_lock,
                 tcache, cursorVars, gm, lm, peer, ihist, amp, protoVars>>

\* a float sample written through ColumnStore::write
ScanWrite(id, ts) ==
  LET sample == MkSample(id, ts, PAYLOAD_FLOAT)
      w == CSWrite(cstore, sample, NoRoots, {}, FALSE) IN
  /\ nwrites < MaxScanWrites
  /\ nwrites' = nwrites + 1
  /\ cstore' = w.cs
  /\ kept' = IF w.res \in Success
             THEN [kept EXCEPT ![id] = Append(@, EntryOf(sample))] ELSE kept
  /\ UNCHANGED <<scan, restOfStore, pc, job, table_lock, tree_lock, tcache,
                 cursorVars, gm, lm, peer, ihist, amp, protoVars>>

\* a scan query over some of the series
ScanRun(ids, begin, end, order) ==
  /\ \A i \in DOMAIN ids : ids[i] \in cstore.cols
  /\ scan' = [ids |-> ids, begin |-> begin, end |-> end, order |-> order,
              out |-> ScanQuery(cstore, ids, begin, end, order), written |-> kept]
  /\ cstore' = IterInitAll(cstore, ids)
  /\ UNCHANGED <<kept, nwrites, restOfStore, pc, job, table_lock, tree_lock, tcache,
                 cursorVars, gm, lm, peer, ihist, amp, protoVars>>

(***************************************************************************)
(* Series index.  gm is the PlainSeriesMatcher of the storage; a session   *)
(* asks its local matcher first, then adds the name to gm and copies the   *)
(* binding into its local matcher; a peer matcher mirrors what             *)
(* pull_new_series hands out.                                              *)
(***************************************************************************)
MaxAdds == 3
MaxPulls == 2
IdxSessions == 1..2
IdDom == STARTING_SERIES_ID..(STARTING_SERIES_ID + MaxAdds)
NoName == ""

\* PlainSeriesMatcher(starting_id): table, inv_table, series_id, names
PlainSeriesMatcher(starting_id) ==
  [table |-> [n \in Names |-> 0], inv_table |-> [i \in IdDom |-> NoName],
   series_id |-> starting_id, names |-> <<>>]

\* an add that issues a new id for a name it already holds
add_always(m, name) ==
  LET id == m.series_id
  IN [m |-> [m EXCEPT !.table[name] = id, !.inv_table[id] = name,
                      !.series_id = id + 1,
                      !.names = Append(@, [name |-> name, id |-> id])],
      id |-> id, new |-> TRUE]

\* an add that does not advance series_id
add_samecounter(m, name) ==
  IF m.table[name] # 0 THEN [m |-> m, id |-> m.table[name], new |-> FALSE]
  ELSE LET id == m.series_id
       IN [m |-> [m EXCEPT !.table[name] = id, !.inv_table[id] = name,
                           !.names = Append(@, [name |-> name, id |-> id])],
           id |-> id, new |-> TRUE]

\* add(name): the id of a name already held, else a new id (series_id++)
add(m, name) ==
  IF m.table[name] # 0 THEN [m |-> m, id |-> m.table[name], new |-> FALSE]
  ELSE LET id == m.series_id
       IN [m |-> [m EXCEPT !.table[name] = id, !.inv_table[id] = name,
                           !.series_id = id + 1,
                           !.names = Append(@, [name |-> name, id |-> id])],
           id |-> id, new |-> TRUE]

\* an _add that fills table and leaves inv_table alone
add_id_tableonly(m, name, id) == [m EXCEPT !.table[name] = id]

\* _add(name, id): the binding is put into table and inv_table; series_id
\* and names are left alone
add_id(m, name, id) == [m EXCEPT !.table[name] = id, !.inv_table[id] = name]

\* match(name): the id, 0 for an unknown name
match(m, name) == m.table[name]

id2str(m, id) == m.inv_table[id]

\* a pull that leaves the names in the matcher
pull_new_series_keep(m) == [m |-> m, buffer |-> m.names]

\* pull_new_series(buffer): the names added since the last pull
pull_new_series(m) == [m |-> [m EXCEPT !.names = <<>>], buffer |-> m.names]

RECURSIVE Mirror(_, _)
Mirror(m, buffer) ==
  IF buffer = <<>> THEN m
  ELSE Mirror(add_id(m, Head(buffer).name, Head(buffer).id), Tail(buffer))

IdleLocal == [m |-> PlainSeriesMatcher(STARTING_SERIES_ID), pc |-> "idle",
              name |-> NoName, id |-> 0, res |-> [n \in Names |-> 0]]

InitIndex ==
  /\ gm = PlainSeriesMatcher(STARTING_SERIES_ID)
  /\ lm = [s \in IdxSessions |-> IdleLocal]
  /\ peer = PlainSeriesMatcher(STARTING_SERIES_ID)
  /\ ihist = [issued |-> <<>>, delivered |-> [n \in Names |-> 0], nadds |-> 0,
              npulls |-> 0, since |-> 0, pull |-> [op |-> "none"]]

notIndex == <<storeVars, concVars, cursorVars, scan, amp, protoVars>>

\* init_series_id: the local matcher knows the name, or the index is asked
IdxLocalMatch(s, name) ==
  /\ lm[s].pc = "idle"
  /\ IF match(lm[s].m, name) # 0
     THEN lm' = [lm EXCEPT ![s].res[name] = match(lm[s].m, name)]
     ELSE lm' = [lm EXCEPT ![s].pc = "global", ![s].name = name]
  /\ UNCHANGED <<gm, peer, ihist, notIndex>>

\* init_series_id: add to the index, under its mutex
IdxGlobalAdd(s) ==
  LET r == add(gm, lm[s].name) IN
  /\ lm[s].pc = "global"
  /\ ihist.nadds < MaxAdds
  /\ gm' = r.m
  /\ lm' = [lm EXCEPT ![s].pc = "local", ![s].id = r.id]
  /\ ihist' = [ihist EXCEPT
                 !.nadds = @ + 1,
                 !.since = IF r.new THEN @ + 1 ELSE @,
                 !.issued = IF r.new
                            THEN Append(@, [name |-> lm[s].name, id |-> r.id])
                            ELSE @]
  /\ UNCHANGED <<peer, notIndex>>

\* init_series_id: the binding goes into the local matcher, the id is returned
IdxLocalAdd(s) ==
  /\ lm[s].pc = "local"
  /\ lm' = [lm EXCEPT ![s].m = add_id(@, lm[s].name, lm[s].id),
                      ![s].res[lm[s].name] = lm[s].id,
                      ![s].pc = "idle", ![s].name = NoName, ![s].id = 0]
  /\ UNCHANGED <<gm, peer, ihist, notIndex>>

\* the new names are pulled from the index and mirrored into the peer
IdxPull ==
  LET r == pull_new_series(gm) IN
  /\ ihist.npulls < MaxPulls
  /\ gm' = r.m
  /\ peer' = Mirror(peer, r.buffer)
  /\ ihist' = [ihist EXCEPT
                 !.npulls = @ + 1,
                 !.since = 0,
                 !.delivered = [n \in Names |->
                    @[n] + Cardinality({k \in DOMAIN r.buffer : r.buffer[k].name = n})],
                 !.pull = [op |-> "pull", buffer |-> r.buffer, since |-> ihist.since]]
  /\ UNCHANGED <<lm, notIndex>>

(***************************************************************************)
(* The column store on its own: columns are created, written through the   *)
(* store and through one CStoreSession, closed and opened again.           *)
(***************************************************************************)
MaxColWrites == 3

\* what a caller may hold in rescue_points before a write
StaleRoots == <<EMPTY_ADDR, EMPTY_ADDR>>
RootsIn == {NoRoots, StaleRoots}

\* the session of this part and its cache_
ColSession == 1

notCols == <<index, metaNames, pendingIds, sess, wal, mode, acked, logged,
             ncrashes, pc, job, table_lock, tree_lock, kept, cursorVars, extVars>>

ColCreate(id) ==
  LET r == create_new_column(cstore, id) IN
  /\ cstore' = r.cs
  /\ last' = [op |-> "create", id |-> id, status |-> r.status, before |-> cstore]
  /\ UNCHANGED <<meta, pending, nwrites, tcache, notCols>>

\* a write through ColumnStore::write (session = FALSE) or CStoreSession::write
ColWrite(session, id, ts, ty, rp) ==
  LET sample == MkSample(id, ts, ty)
      w == IF session THEN SessWrite(cstore, tcache[ColSession], sample, rp)
           ELSE CSWrite(cstore, sample, rp, {}, FALSE) IN
  /\ nwrites < MaxColWrites
  /\ nwrites' = nwrites + 1
  /\ cstore' = w.cs
  /\ tcache' = IF session THEN [tcache EXCEPT ![ColSession] = w.cache] ELSE tcache
  /\ last' = [op |-> "colwrite", session |-> session, sample |-> sample,
              cached |-> session /\ id \in tcache[ColSession],
              res |-> w.res, rp_in |-> rp, rp |-> w.rp,
              with_cache |-> /\ session /\ id \notin tcache[ColSession]
                             /\ ty \in {PAYLOAD_FLOAT, PAYLOAD_EVENT},
              cache_in |-> tcache[ColSession], cache_out |-> w.cache]
  /\ pending' = IF w.res = OK_FLUSH_NEEDED THEN [pending EXCEPT ![id] = w.rp]
                ELSE pending
  /\ UNCHANGED <<meta, notCols>>

\* what an open_or_restore was given and what it answered
OpenResult(before, keys, mapping, force, o) ==
  [op |-> "open", before |-> before, keys |-> keys, mapping |-> mapping,
   force |-> force, status |-> o.status, ids2recover |-> o.ids2recover]

\* close(), then a new store over the same blocks is opened with the rescue
\* points the close returned; the session is gone with the old store
ColReopen(force) ==
  LET c == CSClose(cstore)
      mapping == [i \in Ids |-> IF i \in c.closed THEN c.result[i] ELSE meta[i]]
      o == open_or_restore(NewStore(c.cs.bs), cstore.cols, mapping, force) IN
  /\ cstore.cols # {}
  /\ cstore' = o.cs
  /\ meta' = mapping
  /\ tcache' = [tcache EXCEPT ![ColSession] = {}]
  /\ pending' = [i \in Ids |-> NoRoots]
  /\ last' = OpenResult(NewStore(c.cs.bs), cstore.cols, mapping, force, o)
  /\ UNCHANGED <<nwrites, notCols>>

\* close(ids) on some ids, with or without a column; the rescue points it
\* returns go to the catalog
ColCloseIds(ids) ==
  LET c == CSCloseIds(cstore, ids) IN
  /\ cstore' = c.cs
  /\ meta' = SyncMeta(meta, c.result, c.closed)
  /\ pending' = [i \in Ids |-> IF i \in c.closed THEN NoRoots ELSE pending[i]]
  /\ last' = [op |-> "close_ids", ids |-> ids, keys |-> c.closed,
              result |-> c.result, before |-> cstore]
  /\ UNCHANGED <<nwrites, tcache, notCols>>

\* open_or_restore with the rescue points the writes handed back, on a new
\* store after the old one was lost without a close (fresh), or once more on
\* the store that holds the columns
ColOpen(force, fresh) ==
  LET mapping == [i \in Ids |-> IF pending[i] # NoRoots THEN pending[i] ELSE meta[i]]
      before == IF fresh THEN NewStore(cstore.bs) ELSE cstore
      o == open_or_restore(before, cstore.cols, mapping, force) IN
  /\ cstore.cols # {}
  /\ cstore' = o.cs
  /\ meta' = mapping
  /\ pending' = [i \in Ids |-> NoRoots]
  /\ tcache' = [tcache EXCEPT ![ColSession] = {}]
  /\ last' = OpenResult(before, cstore.cols, mapping, force, o)
  /\ UNCHANGED <<nwrites, notCols>>

(***************************************************************************)
(* Replay of samples during recovery: ColumnStore::recovery_write, and     *)
(* StandaloneDatabase::recovery_write in front of the column store of the  *)
(* worker.                                                                 *)
(***************************************************************************)
AppendResults == {OK, OK_FLUSH_NEEDED, FAIL_BAD_VALUE, FAIL_BAD_ID}

\* ColumnStore::recovery_write called with a sample of the input log
ColRecoveryWrite(id, ts, ty, allow_duplicates) ==
  LET sample == MkSample(id, ts, ty)
      w == CSRecoveryWrite(cstore, sample, allow_duplicates) IN
  /\ nwrites < MaxColWrites
  /\ nwrites' = nwrites + 1
  /\ cstore' = w.cs
  /\ last' = [op |-> "recovery_write", sample |-> sample,
              allow_duplicates |-> allow_duplicates, res |-> w.res, before |-> cstore]
  /\ UNCHANGED <<meta, pending, tcache, notCols>>

\* StandaloneDatabase::recovery_write: the body is empty, no statement touches
\* the column store of the worker; control runs off the end of a function
\* that returns a value, so what the caller receives is any value (res)
SdbRecoveryWrite(id, ts, ty, allow_duplicates, res) ==
  /\ nwrites < MaxColWrites
  /\ nwrites' = nwrites + 1
  /\ last' = [op |-> "sdb_recovery_write", sample |-> MkSample(id, ts, ty),
              allow_duplicates |-> allow_duplicates, res |-> res, before |-> cstore]
  /\ UNCHANGED <<cstore, meta, pending, tcache, notCols>>

\* StandaloneDatabase::recovery_create_new_column
SdbCreateColumn(id) ==
  /\ cstore' = create_new_column(cstore, id).cs
  /\ last' = [op |-> "sdb_create", id |-> id]
  /\ UNCHANGED <<nwrites, meta, pending, tcache, notCols>>

(***************************************************************************)
(* The operators a query gets from the column store.                       *)
(***************************************************************************)
QueryOps == {"scan", "filter", "aggregate", "group_aggregate", "group_aggfilter",
             "scan_events", "filter_events"}

\* the two that look up a filter for the id of the tree
FilteredOps == {"filter", "group_aggfilter"}

\* the status of the function iterate is given: BadArg from filter and
\* group_aggfilter when filters has no entry for the id, else Ok
FnStatus(op, id, filters) ==
  IF op \in FilteredOps /\ id \notin filters THEN "BadArg" ELSE "Ok"

\* an iterate that puts each new operator in front of dest
RECURSIVE iterate_prepend(_, _, _, _, _)
iterate_prepend(cs, ids, op, filters, dest) ==
  IF ids = <<>> THEN [cs |-> cs, status |-> "Ok", dest |-> dest]
  ELSE LET id == Head(ids) IN
       IF id \in cs.cols
       THEN IF FnStatus(op, id, filters) # "Ok"
            THEN [cs |-> IterInit(cs, id), status |-> FnStatus(op, id, filters),
                  dest |-> dest]
            ELSE iterate_prepend(IterInit(cs, id), Tail(ids), op, filters,
                                 <<[id |-> id, op |-> op]>> \o dest)
       ELSE [cs |-> cs, status |-> "NotFound", dest |-> dest]

\* ColumnStore::iterate(ids, dest, fn) as scan, filter, ... call it
RECURSIVE iterate(_, _, _, _, _)
iterate(cs, ids, op, filters, dest) ==
  IF ids = <<>> THEN [cs |-> cs, status |-> "Ok", dest |-> dest]
  ELSE LET id == Head(ids) IN
       IF id \in cs.cols
       THEN IF FnStatus(op, id, filters) # "Ok"
            THEN [cs |-> IterInit(cs, id), status |-> FnStatus(op, id, filters),
                  dest |-> dest]
            ELSE iterate(IterInit(cs, id), Tail(ids), op, filters,
                         Append(dest, [id |-> id, op |-> op]))
       ELSE [cs |-> cs, status |-> "NotFound", dest |-> dest]

\* one of scan, filter, aggregate, ... called with an empty dest
ColIterate(op, ids, filters) ==
  LET r == iterate(cstore, ids, op, filters, <<>>) IN
  /\ cstore' = r.cs
  /\ last' = [op |-> "iterate", query |-> op, ids |-> ids, filters |-> filters,
              status |-> r.status, dest |-> r.dest, before |-> cstore]
  /\ UNCHANGED <<nwrites, meta, pending, tcache, notCols>>

(***************************************************************************)
(* The lock guards of rwlock.h, taken by threads on the RWLocks.           *)
(***************************************************************************)
\* SharedLock = LockGuard<RWLock, &RWLock::wrlock>
SharedLock(l, t) == wrlock(l, t)

ReadLockGuard(l, t) == rdlock(l, t)
WriteLockGuard(l, t) == wrlock(l, t)

GuardKinds == {"UniqueLock", "SharedLock", "ReadLockGuard", "WriteLockGuard"}

\* LockGuard(lock): on_enter of the kind of guard
LockGuard(kind, l, t) ==
  CASE kind = "UniqueLock" -> UniqueLock(l, t)
    [] kind = "SharedLock" -> SharedLock(l, t)
    [] kind = "ReadLockGuard" -> ReadLockGuard(l, t)
    [] OTHER -> WriteLockGuard(l, t)

notLocks == <<cstore, table_lock, tcache, kept, nwrites, restOfStore, cursorVars,
              extVars>>

\* a thread constructs a guard and calls on_enter, which may block
GuardRequest(t, kind, id) ==
  /\ pc[t] = "idle"
  /\ pc' = [pc EXCEPT ![t] = "entering"]
  /\ job' = [job EXCEPT ![t] = [op |-> "guard", kind |-> kind, lock |-> id]]
  /\ UNCHANGED <<tree_lock, notLocks>>

\* on_enter returns: the thread holds the lock
GuardEnter(t) ==
  LET g == LockGuard(job[t].kind, tree_lock[job[t].lock], t) IN
  /\ pc[t] = "entering"
  /\ g.ok
  /\ tree_lock' = [tree_lock EXCEPT ![job[t].lock] = g.lock]
  /\ pc' = [pc EXCEPT ![t] = "holding"]
  /\ UNCHANGED <<job, notLocks>>

\* ~LockGuard: unlock
GuardExit(t) ==
  /\ pc[t] = "holding"
  /\ tree_lock' = [tree_lock EXCEPT ![job[t].lock] = unlock(@, t)]
  /\ pc' = [pc EXCEPT ![t] = "idle"]
  /\ job' = [job EXCEPT ![t] = NoOp]
  /\ UNCHANGED notLocks

(***************************************************************************)
(* The timestamp of an OpenTSDB put line.  A u64 is written as its limbs   *)
(* in base 1000, least significant first, without leading zero limbs, so   *)
(* that 0 is <<>> and a multiplication by 10^9 shifts by three limbs.      *)
(***************************************************************************)
MaxLimbs == 4
LimbValues == {0, 4, 294, 295, 296, 967}

\* the values strtoull gives for the decimal integers of the put lines
U64Values ==
  {v \in UNION {[1..n -> LimbValues] : n \in 0..MaxLimbs} :
     v # <<>> => v[Len(v)] # 0}

\* a < b
Less(a, b) ==
  \/ Len(a) < Len(b)
  \/ /\ Len(a) = Len(b)
     /\ \E k \in DOMAIN a :
          a[k] < b[k] /\ \A j \in DOMAIN a : j > k => a[j] = b[j]

\* a limit of 2^32 = 4 294 967 296
UnixLimit_2to32 == <<296, 967, 294, 4>>

\* 0xFFFFFFFF = 4 294 967 295
UnixLimit == <<295, 967, 294, 4>>

\* from_unix_time(ts): the nanoseconds from the epoch to ts seconds after it
from_unix_time(ts) == IF ts = <<>> THEN <<>> ELSE <<0, 0, 0>> \o ts

\* the timestamp part of the PUT case of OpenTSDBProtocolParser::worker for a
\* decimal integer with the value result; iso_ok: Utility::parse_timestamp
\* accepts the text
PutTimestamp(result, iso_ok) ==
  LET err == result = <<>>
      ts == IF Less(result, UnixLimit) THEN from_unix_time(result) ELSE result
  IN IF ~err THEN [status |-> "Ok", timestamp |-> ts, iso |-> FALSE]
     ELSE IF iso_ok THEN [status |-> "Ok", timestamp |-> <<>>, iso |-> TRUE]
     ELSE [status |-> "ProtocolParserError", timestamp |-> ts, iso |-> FALSE]

notPut == <<cstore, index, metaNames, meta, pending, pendingIds, sess, wal, mode,
            acked, logged, nwrites, ncrashes, concVars, cursorVars, extVars>>

\* the put line of a connection, with an integer timestamp, is parsed
PutLine(value, iso_ok) ==
  /\ last = NoOp
  /\ last' = [op |-> "put", value |-> value, iso_ok |-> iso_ok,
              parsed |-> PutTimestamp(value, iso_ok)]
  /\ UNCHANGED notPut

(***************************************************************************)
(* Group-aggregate: the samples of a range in buckets of step.             *)
(***************************************************************************)
MaxStep == 2
Steps == 1..MaxStep

\* a bucket start that is a multiple of step counted from 0
BucketStart_anchoredAt0(ts, begin, step) == (ts \div step) * step

\* the start of the bucket of ts: the buckets of a query are counted from
\* the begin of its range (from 100000 with step 4000000: 100000, 4100000,
\* 8100000)
BucketStart(ts, begin, step) == begin + ((ts - begin) \div step) * step

MinVal(es) == CHOOSE v \in {es[k].val : k \in DOMAIN es} :
                \A k \in DOMAIN es : v <= es[k].val

\* the tuples of group-aggregate with func min, for one series, ascending
GroupAggregate(cs, id, begin, end, step) ==
  LET es == CSScan(IterInit(cs, id), id, begin, end)
      In(b) == SelectSeq(es, LAMBDA e : BucketStart(e.ts, begin, step) = b)
      starts == {BucketStart(es[k].ts, begin, step) : k \in DOMAIN es}
      ordered == SetToSeq(starts)
  IN [k \in DOMAIN ordered |->
        [paramid |-> id, timestamp |-> ordered[k],
         min |-> MinVal(In(ordered[k])), cnt |-> Len(In(ordered[k]))]]

\* a group-aggregate query over one series, begin < end
AggRun(id, begin, end, step) ==
  /\ id \in cstore.cols
  /\ begin < end
  /\ scan' = [ids |-> <<id>>, begin |-> begin, end |-> end,
              order |-> "group-aggregate", step |-> step,
              out |-> GroupAggregate(cstore, id, begin, end, step), written |-> kept]
  /\ cstore' = IterInit(cstore, id)
  /\ UNCHANGED <<kept, nwrites, restOfStore, pc, job, table_lock, tree_lock, tcache,
                 cursorVars, gm, lm, peer, ihist, amp, protoVars>>

(***************************************************************************)
(* ReadBuffer: the bytes a server pushes and a parser reads.  buffer_ is    *)
(* given by its size and by data, the bytes below wpos_.                    *)
(***************************************************************************)
BufferSize == 2     \* BUFFER_SIZE of the buffers of this model
MaxBufLen == 16     \* buffer_ is not grown beyond this size
MaxPushes == 5      \* chunks a server pushes
N_BUF == 4
NL == "nl"          \* the byte '\n'
Bytes == {"x", NL}

ReadBuffer(buffer_size) ==
  [size |-> buffer_size * N_BUF, data |-> <<>>, rpos |-> 0, wpos |-> 0, cons |-> 0,
   buffers_allocated |-> 0, assert_failed |-> FALSE]

Min(a, b) == IF a <= b THEN a ELSE b

\* get: the byte at rpos_, or the error "unexpected end of stream"
get(rb) ==
  IF rb.rpos = rb.wpos THEN [rb |-> rb, ok |-> FALSE, byte |-> ""]
  ELSE [rb |-> [rb EXCEPT !.rpos = @ + 1], ok |-> TRUE, byte |-> rb.data[rb.rpos + 1]]

pick(rb) ==
  IF rb.rpos = rb.wpos THEN [rb |-> rb, ok |-> FALSE, byte |-> ""]
  ELSE [rb |-> rb, ok |-> TRUE, byte |-> rb.data[rb.rpos + 1]]

is_eof(rb) == rb.rpos = rb.wpos

\* a read that takes buffer_len bytes whatever is there
ReadBuffer_read_uncapped(rb, buffer_len) ==
  [rb |-> [rb EXCEPT !.rpos = @ + buffer_len], n |-> buffer_len]

ReadBuffer_read(rb, buffer_len) ==
  LET to_read == Min(buffer_len, rb.wpos - rb.rpos)
  IN [rb |-> [rb EXCEPT !.rpos = @ + to_read], n |-> to_read]

\* the offsets below to_read at which a newline is found
NewlinesIn(rb, to_read) ==
  {i \in 0..(to_read - 1) : rb.data[rb.rpos + i + 1] = NL}

\* read_line: the bytes up to and with the first newline within quota, or minus
\* the number of bytes looked at when there is none (rpos_ stays)
read_line(rb, quota) ==
  LET to_read == Min(quota, rb.wpos - rb.rpos)
      nls == NewlinesIn(rb, to_read)
  IN IF nls # {}
     THEN LET i == CHOOSE k \in nls : \A j \in nls : k <= j
          IN [rb |-> [rb EXCEPT !.rpos = @ + i + 1], n |-> i + 1,
              line |-> SubSeq(rb.data, rb.rpos + 1, rb.rpos + i + 1)]
     ELSE [rb |-> rb, n |-> 0 - to_read,
           line |-> SubSeq(rb.data, rb.rpos + 1, rb.rpos + to_read)]

consume(rb) ==
  [rb EXCEPT !.assert_failed = @ \/ rb.buffers_allocated # 0, !.cons = rb.rpos]

discard(rb) ==
  [rb EXCEPT !.assert_failed = @ \/ rb.buffers_allocated # 0, !.rpos = rb.cons]

\* a pull that rotates when it can and never grows buffer_
pull_noGrow(rb, buffer_size) ==
  LET sz == rb.size - rb.wpos
      a == [rb EXCEPT !.assert_failed = @ \/ rb.buffers_allocated # 0,
                      !.buffers_allocated = @ + 1]
  IN IF sz < buffer_size /\ rb.cons + sz > buffer_size
     THEN [a EXCEPT !.data = SubSeq(rb.data, rb.cons + 1, rb.wpos),
                    !.wpos = @ - rb.cons, !.rpos = @ - rb.cons, !.cons = 0]
     ELSE a

\* pull: the write region starts at wpos_; a region below BUFFER_SIZE is made
\* larger by moving the unconsumed bytes to the front or by doubling buffer_
pull(rb, buffer_size) ==
  LET sz == rb.size - rb.wpos
      a == [rb EXCEPT !.assert_failed = @ \/ rb.buffers_allocated # 0,
                      !.buffers_allocated = @ + 1]
  IN IF sz < buffer_size
     THEN IF rb.cons + sz > buffer_size
          THEN [a EXCEPT !.data = SubSeq(rb.data, rb.cons + 1, rb.wpos),
                         !.wpos = @ - rb.cons, !.rpos = @ - rb.cons, !.cons = 0]
          ELSE [a EXCEPT !.size = @ * 2]
     ELSE a

\* push of the bytes the server wrote at the pulled region
push(rb, bytes) ==
  [rb EXCEPT !.assert_failed = @ \/ rb.buffers_allocated # 1,
             !.buffers_allocated = @ - 1,
             !.data = @ \o bytes, !.wpos = @ + Len(bytes)]

\* the chunks a server writes into a pulled region: at most BUFFER_SIZE bytes,
\* with or without a newline at their end
Chunks ==
  {c \in UNION {[1..n -> Bytes] : n \in 1..BufferSize} :
     \A k \in 1..(Len(c) - 1) : c[k] # NL}

InitBuf ==
  rdbuf = [rb |-> ReadBuffer(BufferSize), turn |-> "server", pushes |-> 0,
           n |-> 0]

notBuf == <<storeVars, concVars, cursorVars, scan, gm, lm, peer, ihist, amp, resp, tsdb>>

\* what a call of the reader leaves; n: the result of a read_line, else 0
Called(rb, n) == [rdbuf EXCEPT !.rb = rb, !.n = n]

\* the server (turn "server", then "filling") and the reader take turns
\* the server: get_next_buffer
BufPull ==
  /\ rdbuf.turn = "server"
  /\ rdbuf.pushes < MaxPushes
  /\ rdbuf.rb.size <= MaxBufLen
  /\ rdbuf' = [rdbuf EXCEPT !.rb = pull(rdbuf.rb, BufferSize), !.n = 0,
                            !.turn = "filling"]
  /\ UNCHANGED notBuf

\* the server: the bytes received go to the pulled region, and the reader runs
BufPush(bytes) ==
  /\ rdbuf.turn = "filling"
  /\ rdbuf' = [rdbuf EXCEPT !.rb = push(rdbuf.rb, bytes),
                            !.turn = "reader", !.pushes = @ + 1]
  /\ UNCHANGED notBuf

BufGet ==
  /\ rdbuf.turn = "reader"
  /\ rdbuf' = Called(get(rdbuf.rb).rb, 0)
  /\ UNCHANGED notBuf

BufPick ==
  /\ rdbuf.turn = "reader"
  /\ rdbuf' = Called(pick(rdbuf.rb).rb, 0)
  /\ UNCHANGED notBuf

BufRead(buffer_len) ==
  /\ rdbuf.turn = "reader"
  /\ rdbuf' = Called(ReadBuffer_read(rdbuf.rb, buffer_len).rb, 0)
  /\ UNCHANGED notBuf

BufReadLine(quota) ==
  /\ rdbuf.turn = "reader"
  /\ rdbuf' = Called(read_line(rdbuf.rb, quota).rb, read_line(rdbuf.rb, quota).n)
  /\ UNCHANGED notBuf

BufConsume ==
  /\ rdbuf.turn = "reader"
  /\ rdbuf' = Called(consume(rdbuf.rb), 0)
  /\ UNCHANGED notBuf

BufDiscard ==
  /\ rdbuf.turn = "reader"
  /\ rdbuf' = Called(discard(rdbuf.rb), 0)
  /\ UNCHANGED notBuf

\* parse_next returns: the server goes on with get_next_buffer
BufReturn ==
  /\ rdbuf.turn = "reader"
  /\ rdbuf' = [rdbuf EXCEPT !.turn = "server", !.n = 0]
  /\ UNCHANGED notBuf

(***************************************************************************)
(* OpenTSDBProtocolParser: lines of commands read from its rdbuf_.  A byte  *)
(* of the model is a token of a line: the prefix of a command ("put ",      *)
(* "stats", "version", "help"), the arguments of a put ("x"), or the newline.*)
(***************************************************************************)
RDBUF_SIZE == 4     \* BUFFER_SIZE of the rdbuf_ of a parser
LineBufLen == 3     \* buffer_len of the worker: the longest line read_line takes
MaxLines == 2       \* lines a connection sends

PUT == "put"
STATS == "stats"
VERSION == "version"
HELP == "help"

\* the lines a client sends: a put, a put longer than the line buffer, a put
\* without arguments, stats, version, help, and a word that is no command
LongPut == <<PUT>> \o [k \in 1..(LineBufLen - 1) |-> "x"] \o <<NL>>
TsdbLines ==
  {<<PUT, "x", NL>>, LongPut, <<PUT, NL>>, <<STATS, NL>>,
   <<VERSION, NL>>, <<HELP, NL>>, <<"x", NL>>}

RECURSIVE Concat(_)
Concat(ls) == IF ls = <<>> THEN <<>> ELSE Head(ls) \o Concat(Tail(ls))

TsdbStreams == {Concat(ls) : ls \in UNION {[1..n -> TsdbLines] : n \in 1..MaxLines}}

\* message_dispatch: the type of a line is in its first bytes
message_dispatch(line) ==
  IF Head(line) \in {PUT, STATS, VERSION, HELP} THEN Head(line) ELSE "UNKNOWN"

NoParser ==
  [open |-> FALSE, stream |-> <<>>, sent |-> 0, rb |-> ReadBuffer(RDBUF_SIZE),
   turn |-> "server", written |-> <<>>, answered |-> 0, ignored |-> 0,
   error |-> "", handled |-> 0]

InitTsdb == tsdb = NoParser

\* OpenTSDBProtocolParser::worker: lines are read and handled until none is
\* complete, a response is returned, or an error is thrown.  fuel bounds the
\* recursion by the number of bytes.
RECURSIVE TsdbWorker(_, _)
TsdbWorker(st, fuel) ==
  LET r == read_line(st.rb, LineBufLen)
  IN IF r.n <= 0 \/ fuel = 0 THEN st
     ELSE LET msgtype == message_dispatch(r.line)
              s1 == [st EXCEPT !.rb = r.rb, !.handled = @ + 1]
          IN CASE msgtype = PUT ->
                    IF Len(r.line) < 3
                    THEN [s1 EXCEPT !.error = "put: not enough arguments"]
                    ELSE TsdbWorker([s1 EXCEPT !.written = Append(@, r.line),
                                               !.rb = consume(r.rb)], fuel - 1)
               [] msgtype \in {STATS, VERSION} -> [s1 EXCEPT !.answered = @ + 1]
               [] msgtype = HELP -> TsdbWorker([s1 EXCEPT !.ignored = @ + 1], fuel - 1)
               [] OTHER -> [s1 EXCEPT !.error = "unknown command"]

notTsdb == <<storeVars, concVars, cursorVars, scan, gm, lm, peer, ihist, amp, rdbuf, resp>>

\* a client connects and will send the bytes of stream
TsdbConnect(stream) ==
  /\ ~tsdb.open
  /\ tsdb' = [NoParser EXCEPT !.open = TRUE, !.stream = stream]
  /\ UNCHANGED notTsdb

\* get_next_buffer
TsdbGetNextBuffer ==
  /\ tsdb.open /\ tsdb.turn = "server" /\ tsdb.error = ""
  /\ tsdb.sent < Len(tsdb.stream)
  /\ tsdb' = [tsdb EXCEPT !.rb = pull(tsdb.rb, RDBUF_SIZE), !.turn = "filling"]
  /\ UNCHANGED notTsdb

\* parse_next(buffer, sz): the next sz bytes of the connection are pushed and
\* the worker runs
TsdbParseNext(sz) ==
  /\ tsdb.open /\ tsdb.turn = "filling"
  /\ tsdb.sent + sz <= Len(tsdb.stream)
  /\ LET bytes == SubSeq(tsdb.stream, tsdb.sent + 1, tsdb.sent + sz)
         st == [tsdb EXCEPT !.rb = push(tsdb.rb, bytes), !.sent = @ + sz,
                            !.turn = "server", !.handled = 0]
     IN tsdb' = TsdbWorker(st, Len(st.rb.data))
  /\ UNCHANGED notTsdb

(***************************************************************************)
(* RESPProtocolParser: an optional dictionary, then data PDUs of a series, *)
(* a timestamp and one value or an array of values.  A RESP element is two *)
(* bytes of the model: a head that carries the type and the text of the    *)
(* element, and its terminator "\r\n" (NL), so that a chunk can end inside *)
(* an element.                                                             *)
(***************************************************************************)
IntTokens == <<"i1", "i2", "i3">>
ArrTokens == <<"a1", "a2", "a3", "a4", "a5", "a6", "a7", "a8", "a9", "a10",
               "a11", "a12">>
NameF == "sF"       \* the name of a numeric series
NameE == "sE"       \* the name of an event series
NameFE == "sFE"     \* a compound name: a numeric and an event series
Text3 == "s3"       \* the text "3"
StrTokens == {NameF, NameE, NameFE, Text3}

IntTok(n) == IntTokens[n]
ArrTok(n) == ArrTokens[n]
IsInt(b) == \E n \in 1..Len(IntTokens) : IntTokens[n] = b
IsArr(b) == \E n \in 1..Len(ArrTokens) : ArrTokens[n] = b
IntVal(b) == CHOOSE n \in 1..Len(IntTokens) : IntTokens[n] = b
ArrVal(b) == CHOOSE n \in 1..Len(ArrTokens) : ArrTokens[n] = b

\* strtod of a string: its number, or 0 - 1 when the text is no number
strtod(b) == IF b = Text3 THEN 3 ELSE 0 - 1

FloatId == 7
EventId == 0 - 7

\* name_to_param_id_list of the consumer: one id per metric of the name
name_to_param_id_list(name) ==
  CASE name = NameF -> <<FloatId>>
    [] name = NameE -> <<EventId>>
    [] name = NameFE -> <<FloatId, EventId>>
    [] OTHER -> <<>>

\* RESPStream::next_type: the type is in the first byte of the element
TypeOf(b) ==
  CASE IsInt(b) -> "INTEGER"
    [] b \in StrTokens -> "STRING"
    [] IsArr(b) -> "ARRAY"
    [] OTHER -> "_BAD"

next_type(rb) == IF is_eof(rb) THEN "_AGAIN" ELSE TypeOf(pick(rb).byte)

\* an element is read when its terminator is in the buffer
read_element(rb) ==
  LET r == read_line(rb, rb.wpos - rb.rpos)
  IN IF r.n > 0 THEN [ok |-> TRUE, rb |-> r.rb, tok |-> r.line[1]]
     ELSE [ok |-> FALSE, rb |-> rb, tok |-> ""]

\* a read_int that does not wait for the terminator of the element
read_int_early(rb) ==
  LET r == ReadBuffer_read(rb, 2)
  IN [ok |-> TRUE, rb |-> r.rb, val |-> IntVal(pick(rb).byte)]

read_int(rb) ==
  LET e == read_element(rb)
  IN [ok |-> e.ok, rb |-> e.rb, val |-> IF e.ok THEN IntVal(e.tok) ELSE 0]

read_string(rb) == read_element(rb)

read_array_size(rb) ==
  LET e == read_element(rb)
  IN [ok |-> e.ok, rb |-> e.rb, val |-> IF e.ok THEN ArrVal(e.tok) ELSE 0]

\* an update_dict that inserts the row also when the uid is in idmap_
update_dict_always(idmap, uid, row) ==
  IF uid \in DOMAIN idmap THEN [idmap EXCEPT ![uid] = @ \o row]
  ELSE idmap @@ (uid :> row)

\* update_dict: the row of a uid is kept as it was first given
update_dict(idmap, uid, row) ==
  IF uid \in DOMAIN idmap THEN idmap ELSE idmap @@ (uid :> row)

read_dict(idmap, uid) == IF uid \in DOMAIN idmap THEN idmap[uid] ELSE <<>>

\* F applied to the value of v
Eval(v, F(_)) == CHOOSE r \in {F(x) : x \in {v}} : TRUE

Thrown(st, msg) == [st EXCEPT !.error = msg]
Again(st) == [st EXCEPT !.rb = discard(@)]

\* the pairs of a dictionary array: a name and the uid that stands for it
RECURSIVE DictPairs(_, _)
DictPairs(s0, n) ==
  Eval(s0, LAMBDA st :
  IF n = 0 THEN [st |-> st, r |-> "done"]
  ELSE
    LET t1 == next_type(st.rb)
        e1 == read_string(st.rb)
        ids == name_to_param_id_list(e1.tok)
        t2 == next_type(e1.rb)
        e2 == read_int(e1.rb)
    IN CASE t1 = "_AGAIN" -> [st |-> Again(st), r |-> "again"]
         [] t1 # "_AGAIN" /\ t1 # "STRING" ->
              [st |-> Thrown(st, "unexpected series name format"), r |-> "error"]
         [] t1 = "STRING" /\ ~e1.ok -> [st |-> Again(st), r |-> "again"]
         [] t1 = "STRING" /\ e1.ok /\ Len(ids) <= 0 ->
              [st |-> Thrown(st, "invalid series name format"), r |-> "error"]
         [] t1 = "STRING" /\ e1.ok /\ Len(ids) > 0 ->
              CASE t2 = "_AGAIN" -> [st |-> Again(st), r |-> "again"]
                [] t2 = "INTEGER" ->
                     IF ~e2.ok THEN [st |-> Again(st), r |-> "again"]
                     ELSE DictPairs([st EXCEPT !.rb = e2.rb,
                                      !.idmap = update_dict(@, e2.val, ids)], n - 2)
                [] OTHER ->
                     [st |-> Thrown(st, "unexpected series name format"), r |-> "error"])

\* parse_dict: dictionary arrays are read until an element of another type is
\* met; FALSE when the buffer ends before that
RECURSIVE parse_dict(_)
parse_dict(s0) ==
  Eval(s0, LAMBDA st :
  LET next == next_type(st.rb)
      a == read_array_size(st.rb)
      d == DictPairs([st EXCEPT !.rb = a.rb], a.val)
  IN CASE next = "_AGAIN" -> [st |-> Again(st), ok |-> FALSE]
       [] next = "ARRAY" ->
            IF ~a.ok THEN [st |-> Again(st), ok |-> FALSE]
            ELSE IF a.val % 2 # 0
            THEN [st |-> Thrown(st, "number of elements in the dictionary should be even"),
                  ok |-> FALSE]
            ELSE IF d.r = "done" THEN parse_dict([d.st EXCEPT !.rb = consume(@)])
            ELSE [st |-> d.st, ok |-> FALSE]
       [] OTHER -> [st |-> Again(st), ok |-> TRUE])

\* parse_ids: the series of a PDU by name or by the uid of the dictionary;
\* rowwidth is -1 when the element is not complete
parse_ids(s0) ==
  Eval(s0, LAMBDA st :
  LET next == next_type(st.rb)
      s == read_string(st.rb)
      u == read_int(st.rb)
      byname == name_to_param_id_list(s.tok)
      byuid == read_dict(st.idmap, u.val)
  IN CASE next = "_AGAIN" -> [st |-> Again(st), rowwidth |-> 0 - 1]
       [] next = "STRING" ->
            IF ~s.ok THEN [st |-> Again(st), rowwidth |-> 0 - 1]
            ELSE IF Len(byname) <= 0
            THEN [st |-> Thrown(st, "invalid series name format"), rowwidth |-> 0]
            ELSE [st |-> [st EXCEPT !.rb = s.rb, !.paramids = byname],
                  rowwidth |-> Len(byname)]
       [] next = "INTEGER" ->
            IF ~u.ok THEN [st |-> Again(st), rowwidth |-> 0 - 1]
            ELSE IF Len(byuid) <= 0
            THEN [st |-> Thrown(st, "invalid series name format"), rowwidth |-> 0]
            ELSE [st |-> [st EXCEPT !.rb = u.rb, !.paramids = byuid],
                  rowwidth |-> Len(byuid)]
       [] OTHER -> [st |-> Thrown(st, "unexpected parameter id format"), rowwidth |-> 0])

\* parse_timestamp: an integer; no string of the alphabet is a timestamp
parse_timestamp(s0) ==
  Eval(s0, LAMBDA st :
  LET next == next_type(st.rb)
      t == read_int(st.rb)
      s == read_string(st.rb)
  IN CASE next = "_AGAIN" -> [st |-> st, ok |-> FALSE]
       [] next = "INTEGER" ->
            IF ~t.ok THEN [st |-> st, ok |-> FALSE]
            ELSE [st |-> [st EXCEPT !.rb = t.rb, !.timestamp = t.val], ok |-> TRUE]
       [] next = "STRING" /\ ~s.ok -> [st |-> st, ok |-> FALSE]
       [] OTHER ->
            [st |-> Thrown(st, "unexpected parameter timestamp format"), ok |-> FALSE])

\* the three readers of a value of parse_values; own keeps the element read
parse_int_value(s0, at) ==
  Eval(s0, LAMBDA st :
  LET v == read_int(st.rb)
  IN IF ~v.ok THEN [st |-> st, ok |-> FALSE]
     ELSE [st |-> [st EXCEPT !.rb = v.rb, !.values[at] = v.val,
                             !.own[at] = pick(st.rb).byte], ok |-> TRUE])

parse_string_value(s0, at) ==
  Eval(s0, LAMBDA st :
  LET v == read_string(st.rb)
  IN IF ~v.ok THEN [st |-> st, ok |-> FALSE]
     ELSE IF strtod(v.tok) < 0
     THEN [st |-> Thrown(st, "can't parse double value"), ok |-> FALSE]
     ELSE [st |-> [st EXCEPT !.rb = v.rb, !.values[at] = strtod(v.tok),
                             !.own[at] = v.tok], ok |-> TRUE])

parse_event_value(s0, at) ==
  Eval(s0, LAMBDA st :
  LET v == read_string(st.rb)
  IN IF ~v.ok THEN [st |-> st, ok |-> FALSE]
     ELSE [st |-> [st EXCEPT !.rb = v.rb, !.events[at] = v.tok,
                             !.own[at] = v.tok], ok |-> TRUE])

\* the elements i..arrsize of an array of values
RECURSIVE ValueElems(_, _, _)
ValueElems(s0, i, arrsize) ==
  Eval(s0, LAMBDA st :
  IF i > arrsize THEN [st |-> st, ok |-> TRUE]
  ELSE
    LET next == next_type(st.rb)
        r == IF st.paramids[i] > 0
             THEN CASE next = "_AGAIN" -> [st |-> st, ok |-> FALSE]
                    [] next = "INTEGER" -> parse_int_value(st, i)
                    [] next = "STRING" -> parse_string_value(st, i)
                    [] OTHER -> [st |-> Thrown(st, "unexpected parameter value format"),
                                 ok |-> FALSE]
             ELSE CASE next = "STRING" -> parse_event_value(st, i)
                    [] next = "_AGAIN" -> [st |-> st, ok |-> FALSE]
                    [] OTHER -> [st |-> Thrown(st, "unexpected event format"),
                                 ok |-> FALSE]
    IN IF r.ok THEN ValueElems(r.st, i + 1, arrsize) ELSE r)

\* parse_values: one value for a row of one series, else an array as wide
\* as the row
parse_values(s0, nvalues) ==
  Eval(s0, LAMBDA st :
  LET next == next_type(st.rb)
      a == read_array_size(st.rb)
  IN CASE next = "_AGAIN" -> [st |-> st, ok |-> FALSE]
       [] next = "INTEGER" ->
            IF nvalues = 1 THEN parse_int_value(st, 1)
            ELSE [st |-> Thrown(st, "array expected (bulk format), integer found"),
                  ok |-> FALSE]
       [] next = "STRING" ->
            IF nvalues = 1
            THEN IF st.paramids[1] > 0 THEN parse_string_value(st, 1)
                 ELSE parse_event_value(st, 1)
            ELSE [st |-> Thrown(st, "array expected (bulk format), string found"),
                  ok |-> FALSE]
       [] next = "ARRAY" ->
            IF ~a.ok THEN [st |-> st, ok |-> FALSE]
            ELSE IF a.val # nvalues
            THEN [st |-> Thrown(st, "wrong array size"), ok |-> FALSE]
            ELSE ValueElems([st EXCEPT !.rb = a.rb], 1, a.val)
       [] OTHER -> [st |-> Thrown(st, "unexpected parameter value format"), ok |-> FALSE])

\* the sample the worker writes for column i of the row it parsed; end is the
\* offset in the connection at which the PDU ended, own the value element
RowSample(s0, i) ==
  Eval(s0, LAMBDA st :
  [paramid |-> st.paramids[i], timestamp |-> st.timestamp,
   float64 |-> IF st.paramids[i] > 0 THEN st.values[i] ELSE 0,
   event |-> IF st.paramids[i] > 0 THEN "" ELSE st.events[i],
   end |-> st.sent - (st.rb.wpos - st.rb.rpos), own |-> st.own[i]])

\* the PDUs of the worker: series, timestamp and values are parsed, the PDU
\* is consumed, and its samples are written
RECURSIVE PduLoop(_)
PduLoop(s0) ==
  Eval(parse_ids(s0), LAMBDA pi :
    IF pi.st.error # "" THEN pi.st
    ELSE IF pi.rowwidth < 0 THEN Again(pi.st)
    ELSE Eval(parse_timestamp(pi.st), LAMBDA pt :
      IF pt.st.error # "" THEN pt.st
      ELSE IF ~pt.ok THEN Again(pt.st)
      ELSE Eval(parse_values(pt.st, pi.rowwidth), LAMBDA pv :
        IF pv.st.error # "" THEN pv.st
        ELSE IF ~pv.ok THEN Again(pv.st)
        ELSE Eval([pv.st EXCEPT !.rb = consume(@)], LAMBDA s1 :
          PduLoop([s1 EXCEPT !.written =
                     @ \o [i \in 1..pi.rowwidth |-> RowSample(s1, i)]])))))

\* RESPProtocolParser::worker: the dictionary is tried first, then the PDUs
worker(s0) ==
  Eval(s0, LAMBDA st :
  LET d == parse_dict(st)
  IN IF d.st.error # "" \/ ~d.ok THEN d.st ELSE PduLoop(d.st))

\* the messages of a connection
Elem(tok) == <<tok, NL>>
MapConcat(f) == Concat([k \in 1..Len(f) |-> f[k]])

\* a dictionary of pairs <<name, uid>>
DictMsg(pairs) ==
  [kind |-> "dict", ok |-> TRUE, ids |-> <<>>, ts |-> 0, vals |-> <<>>,
   toks |-> Elem(ArrTok(2 * Len(pairs))) \o
            MapConcat([k \in 1..Len(pairs) |->
                         Elem(pairs[k][1]) \o Elem(IntTok(pairs[k][2]))])]

\* a data PDU: idtok names the series ids, vals are the value elements, sent
\* as one element (bulk FALSE) or as an array; ok: the PDU is well-formed
DataMsg(idtok, ids, ts, vals, bulk, ok) ==
  [kind |-> "data", ok |-> ok, ids |-> ids, ts |-> ts, vals |-> vals,
   toks |-> Elem(idtok) \o Elem(IntTok(ts)) \o
            (IF bulk THEN Elem(ArrTok(Len(vals))) ELSE <<>>) \o
            MapConcat([k \in 1..Len(vals) |-> Elem(vals[k])])]

\* the dictionary of the connections: uid 1 is the numeric series, uid 2 the
\* event series; the long dictionary repeats the two pairs
DictPair(k) == IF k % 2 = 1 THEN <<NameF, 1>> ELSE <<NameE, 2>>
LongDict == DictMsg([k \in 1..RDBUF_SIZE |-> DictPair(k)])

\* valid connections: series by name, and series by uid after a dictionary
\* that does not fit into the buffer of the parser
StreamByName ==
  <<DataMsg(NameF, <<FloatId>>, 1, <<IntTok(2)>>, FALSE, TRUE),
    DataMsg(NameE, <<EventId>>, 2, <<Text3>>, FALSE, TRUE),
    DataMsg(NameFE, <<FloatId, EventId>>, 3, <<IntTok(1), NameF>>, TRUE, TRUE)>>
StreamByUid ==
  <<LongDict,
    DataMsg(IntTok(1), <<FloatId>>, 1, <<Text3>>, FALSE, TRUE),
    DataMsg(IntTok(2), <<EventId>>, 2, <<Text3>>, FALSE, TRUE)>>
ValidStreams == {StreamByName, StreamByUid}

\* a dictionary after a data PDU, and a PDU by the uid it defines
StreamLateDict ==
  <<DataMsg(NameF, <<FloatId>>, 1, <<IntTok(2)>>, FALSE, TRUE),
    DictMsg(<<DictPair(2)>>),
    DataMsg(IntTok(2), <<EventId>>, 2, <<Text3>>, FALSE, TRUE)>>
\* an event sent as a string, then an event sent as an integer
StreamIntEvent ==
  <<DataMsg(NameE, <<EventId>>, 1, <<Text3>>, FALSE, TRUE),
    DataMsg(NameE, <<EventId>>, 2, <<IntTok(2)>>, FALSE, TRUE)>>
\* a row whose second value is rejected, and a PDU behind it
StreamBadRow ==
  <<DataMsg(NameF, <<FloatId>>, 1, <<IntTok(2)>>, FALSE, TRUE),
    DataMsg(NameFE, <<FloatId, EventId>>, 2, <<IntTok(1), IntTok(2)>>, TRUE, FALSE),
    DataMsg(NameF, <<FloatId>>, 3, <<IntTok(3)>>, FALSE, TRUE)>>
RespStreams ==
  ValidStreams \cup {StreamLateDict, StreamIntEvent, StreamBadRow}

BytesOf(msgs) == MapConcat([k \in 1..Len(msgs) |-> msgs[k].toks])

\* the parser of a connection; std::string events_[] start empty
NoRespParser ==
  [open |-> FALSE, msgs |-> <<>>, sent |-> 0, rb |-> ReadBuffer(RDBUF_SIZE),
   turn |-> "server", idmap |-> <<>>, paramids |-> <<>>, timestamp |-> 0,
   values |-> [i \in 1..Len(name_to_param_id_list(NameFE)) |-> 0],
   events |-> [i \in 1..Len(name_to_param_id_list(NameFE)) |-> ""],
   own |-> [i \in 1..Len(name_to_param_id_list(NameFE)) |-> ""],
   written |-> <<>>, error |-> ""]

InitResp == resp = NoRespParser

notResp == <<storeVars, concVars, cursorVars, scan, gm, lm, peer, ihist, amp, rdbuf, tsdb>>

\* a client connects and will send the bytes of msgs
RespConnect(msgs) ==
  /\ ~resp.open
  /\ resp' = [NoRespParser EXCEPT !.open = TRUE, !.msgs = msgs]
  /\ UNCHANGED notResp

\* get_next_buffer
RespGetNextBuffer ==
  /\ resp.open /\ resp.turn = "server" /\ resp.error = ""
  /\ resp.sent < Len(BytesOf(resp.msgs))
  /\ resp' = [resp EXCEPT !.rb = pull(resp.rb, RDBUF_SIZE), !.turn = "filling"]
  /\ UNCHANGED notResp

\* parse_next(buffer, sz): the next sz bytes of the connection are pushed and
\* the worker runs
RespParseNext(sz) ==
  /\ resp.open /\ resp.turn = "filling"
  /\ resp.sent + sz <= Len(BytesOf(resp.msgs))
  /\ LET bytes == SubSeq(BytesOf(resp.msgs), resp.sent + 1, resp.sent + sz)
     IN resp' = worker([resp EXCEPT !.rb = push(resp.rb, bytes), !.sent = @ + sz,
                                    !.turn = "server"])
  /\ UNCHANGED notResp

(***************************************************************************)
(* Write amplification: the appends to the block store of a store that     *)
(* runs with or without the input log.                                     *)
(***************************************************************************)
MaxAmpWrites == 3

InitAmp ==
  amp = [init |-> FALSE, usewal |-> TRUE, closed |-> FALSE, before |-> 0,
         overflow |-> FALSE, evicted |-> {}, rewritten |-> FALSE]

\* the columns that were open in cs0 and are closed in cs1
EvictedBy(cs0, cs1) == {i \in cs0.cols : cs0.tree[i].init /\ ~cs1.tree[i].init}

\* a session that logs its records also when the store has no input log
AmpFrame_always(usewal, frame, decl, sample) == frame \o decl \o <<SampleRec(sample)>>

\* the frame of a session after a write: without an input log nothing is logged
AmpFrame(usewal, frame, decl, sample) ==
  IF usewal THEN frame \o decl \o <<SampleRec(sample)>> ELSE <<>>

\* Storage::initialize_input_log(params): input_log_path is null or a path
AmpInitLog(usewal) ==
  /\ ~amp.init
  /\ amp' = [amp EXCEPT !.init = TRUE, !.usewal = usewal]
  /\ UNCHANGED <<storeVars, concVars, cursorVars, scan, gm, lm, peer, ihist, protoVars>>

\* init_series_id for a new name, once the input log is set up
AmpAddSeries(n) == amp.init /\ AddSeries(n)

\* create_write_session, once the input log is set up
AmpOpenSession(s) == amp.init /\ OpenSession(s)

\* StorageSession::write of a float sample, as fill_data does
AmpWrite(s, id, ts) ==
  /\ amp.init /\ mode = "up" /\ sess[s].open
  /\ nwrites < MaxAmpWrites
  /\ id \in {index[n] : n \in Names}
  /\ LET sample == MkSample(id, ts, PAYLOAD_FLOAT)
         decl == IF id \in sess[s].local THEN <<>>
                 ELSE <<NameRec(NameOf(index, id), id)>>
         frame1 == AmpFrame(amp.usewal, sess[s].frame, decl, sample)
         full == Len(frame1) >= FrameCap
         st == IF full THEN FlushInto(CurSt, frame1, index) ELSE CurSt
         w == SessWrite(st.cs, sess[s].cache, sample, NoRoots)
         flushed == w.res = OK_FLUSH_NEEDED
     IN /\ SetSt([st EXCEPT !.cs = w.cs,
                            !.pending = IF flushed THEN [@ EXCEPT ![id] = w.rp] ELSE @,
                            !.pendingIds = IF flushed THEN @ \cup {id} ELSE @])
        /\ sess' = [sess EXCEPT ![s].cache = w.cache,
                                ![s].local = @ \cup {id},
                                ![s].frame = IF full THEN <<>> ELSE frame1]
        /\ logged' = IF full THEN logged \cup SamplesIn(frame1) ELSE logged
        /\ acked' = IF w.res \in Success THEN acked \cup {sample} ELSE acked
        /\ amp' = [amp EXCEPT
                     !.overflow = @ \/ flushed,
                     !.evicted = @ \cup EvictedBy(cstore, st.cs),
                     !.rewritten = @ \/ (w.res \in Success /\
                                         id \in amp.evicted \cup EvictedBy(cstore, st.cs))]
  /\ nwrites' = nwrites + 1
  /\ last' = NoOp
  /\ UNCHANGED <<index, mode, ncrashes, concVars, cursorVars, scan, gm, lm, peer, ihist, protoVars>>

\* session.reset(): the frame of the session is flushed, its cache is dropped
AmpCloseSession(s) ==
  /\ amp.init /\ mode = "up" /\ sess[s].open
  /\ LET st == FlushInto(CurSt, sess[s].frame, index)
     IN /\ SetSt(st)
        /\ amp' = [amp EXCEPT !.evicted = @ \cup EvictedBy(cstore, st.cs)]
  /\ logged' = logged \cup SamplesIn(sess[s].frame)
  /\ sess' = [sess EXCEPT ![s] = ClosedSession]
  /\ last' = NoOp
  /\ UNCHANGED <<index, mode, acked, nwrites, ncrashes, concVars, cursorVars,
                 scan, gm, lm, peer, ihist, protoVars>>

\* Storage::close after the sessions are gone: every open column is closed and
\* the rescue points go to the catalog
AmpClose ==
  /\ amp.init /\ mode = "up"
  /\ \A s \in Sessions : ~sess[s].open
  /\ LET c == CSClose(cstore)
     IN /\ cstore' = c.cs
        /\ meta' = SyncMeta(SyncMeta(meta, pending, pendingIds), c.result, c.closed)
  /\ metaNames' = index
  /\ pendingIds' = {}
  /\ mode' = "down"
  /\ amp' = [amp EXCEPT !.closed = TRUE, !.before = Len(cstore.bs)]
  /\ last' = NoOp
  /\ UNCHANGED <<index, pending, sess, wal, acked, logged, nwrites, ncrashes,
                 concVars, cursorVars, scan, gm, lm, peer, ihist, protoVars>>

NextEngine ==
  \/ \E n \in Names : AddSeries(n)
  \/ \E s \in Sessions, id \in Ids, ts \in Timestamps, ty \in PayloadTypes :
       SessionWrite(s, id, ts, ty)
  \/ Publish
  \/ \E s \in Sessions : FlushFrame(s)
  \/ \E s \in Sessions : CloseSession(s)
  \/ \E s \in Sessions : OpenSession(s)
  \/ Crash
  \/ Recover
  \/ \E s \in Sessions, id \in Ids : Query(s, id)

vars == <<storeVars, concVars, cursorVars, extVars>>

Init == InitStore /\ InitConc /\ InitQuery /\ InitScan /\ InitIndex /\ InitAmp
        /\ InitBuf /\ InitResp /\ InitTsdb

Spec == Init /\ [][NextEngine]_vars

\* the column store used through sessions and directly, without a crash
NextStore ==
  \/ \E n \in Names : AddSeries(n)
  \/ \E s \in Sessions, id \in Ids, ts \in Timestamps, ty \in PayloadTypes :
       SessionWrite(s, id, ts, ty)
  \/ \E id \in Ids, ts \in Timestamps, ty \in PayloadTypes : DirectWrite(id, ts, ty)
  \/ Publish
  \/ \E s \in Sessions : FlushFrame(s)
  \/ \E s \in Sessions : CloseSession(s)
  \/ \E s \in Sessions : OpenSession(s)
  \/ \E s \in Sessions, id \in Ids : Query(s, id)

SpecStore == Init /\ [][NextStore]_vars

\* sessions on several threads writing to the column store
NextConc ==
  \/ \E id \in Ids : ConcCreate(id)
  \/ \E t \in Threads, id \in Ids, ts \in Timestamps, ty \in PayloadTypes :
       ConcBegin(t, id, ts, ty)
  \/ \E t \in Threads : ConcTableLock(t)
  \/ \E t \in Threads : ConcAppendEnter(t)
  \/ \E t \in Threads : ConcAppendExit(t)

SpecConc == Init /\ [][NextConc]_vars

\* queries pushed to their cursors
NextQuery ==
  \/ \E valid \in BOOLEAN, rows \in RowSeqs : QueryStart(valid, rows)
  \/ QueryCancel
  \/ QueryPush
  \/ QueryCancelled
  \/ QueryStop
  \/ ConsumerRead

SpecQuery == Init /\ [][NextQuery]_vars

\* scan queries over a column store written through ColumnStore::write
NextScan ==
  \/ \E id \in Ids : ScanCreate(id)
  \/ \E id \in Ids, ts \in Timestamps : ScanWrite(id, ts)
  \/ \E ids \in IdLists, begin \in RangeEnds, end \in RangeEnds,
        order \in OrderBys : ScanRun(ids, begin, end, order)

SpecScan == Init /\ [][NextScan]_vars

\* sessions registering names in the series index
NextIndex ==
  \/ \E s \in IdxSessions, name \in Names : IdxLocalMatch(s, name)
  \/ \E s \in IdxSessions : IdxGlobalAdd(s)
  \/ \E s \in IdxSessions : IdxLocalAdd(s)
  \/ IdxPull

SpecIndex == Init /\ [][NextIndex]_vars

\* the life of the columns of a column store
NextCols ==
  \/ \E id \in Ids : ColCreate(id)
  \/ \E session \in BOOLEAN, id \in Ids, ts \in Timestamps, ty \in PayloadTypes,
        rp \in RootsIn : ColWrite(session, id, ts, ty, rp)
  \/ \E force \in BOOLEAN : ColReopen(force)
  \/ \E force \in BOOLEAN, fresh \in BOOLEAN : ColOpen(force, fresh)

SpecCols == Init /\ [][NextCols]_vars

\* samples replayed into a column store that holds written series
NextReplay ==
  \/ \E id \in Ids : SdbCreateColumn(id)
  \/ \E id \in Ids, ts \in Timestamps, ty \in PayloadTypes :
       DirectWrite(id, ts, ty)
  \/ \E id \in Ids, ts \in Timestamps, ty \in PayloadTypes, allow \in BOOLEAN :
       ColRecoveryWrite(id, ts, ty, allow)
  \/ \E id \in Ids, ts \in Timestamps, ty \in PayloadTypes, allow \in BOOLEAN,
        res \in AppendResults : SdbRecoveryWrite(id, ts, ty, allow, res)

SpecReplay == Init /\ [][NextReplay]_vars

\* columns closed by id, between writes and reopenings
NextClose ==
  \/ \E id \in Ids : ColCreate(id)
  \/ \E id \in Ids, ts \in Timestamps, ty \in PayloadTypes :
       DirectWrite(id, ts, ty)
  \/ \E force \in BOOLEAN : ColReopen(force)
  \/ \E ids \in IdLists : ColCloseIds(ids)

SpecClose == Init /\ [][NextClose]_vars

\* queries asking for operators over columns created and restored
NextIter ==
  \/ \E id \in Ids : ColCreate(id)
  \/ \E force \in BOOLEAN : ColReopen(force)
  \/ \E op \in QueryOps, ids \in IdLists, filters \in SUBSET Ids :
       ColIterate(op, ids, filters)

SpecIter == Init /\ [][NextIter]_vars

\* threads taking and leaving guards on the locks
NextLocks ==
  \/ \E t \in Threads, kind \in GuardKinds, id \in Ids : GuardRequest(t, kind, id)
  \/ \E t \in Threads : GuardEnter(t)
  \/ \E t \in Threads : GuardExit(t)

SpecLocks == Init /\ [][NextLocks]_vars

\* put lines of the OpenTSDB protocol
NextPut == \E value \in U64Values, iso_ok \in BOOLEAN : PutLine(value, iso_ok)

SpecPut == Init /\ [][NextPut]_vars

\* group-aggregate queries over series written through ColumnStore::write
NextAgg ==
  \/ \E id \in Ids : ScanCreate(id)
  \/ \E id \in Ids, ts \in Timestamps : ScanWrite(id, ts)
  \/ \E id \in Ids, begin \in RangeEnds, end \in RangeEnds, step \in Steps :
       AggRun(id, begin, end, step)

SpecAgg == Init /\ [][NextAgg]_vars

\* series written in successive sessions, with and without the input log
NextAmp ==
  \/ \E usewal \in BOOLEAN : AmpInitLog(usewal)
  \/ \E n \in Names : AmpAddSeries(n)
  \/ \E s \in Sessions, id \in Ids, ts \in Timestamps : AmpWrite(s, id, ts)
  \/ \E s \in Sessions : AmpCloseSession(s)
  \/ \E s \in Sessions : AmpOpenSession(s)
  \/ AmpClose

SpecAmp == Init /\ [][NextAmp]_vars

\* a session that keeps its cache while columns are closed by id
NextCache ==
  \/ \E id \in Ids : ColCreate(id)
  \/ \E id \in Ids, ts \in Timestamps, ty \in PayloadTypes :
       ColWrite(TRUE, id, ts, ty, NoRoots)
  \/ \E ids \in IdLists : ColCloseIds(ids)

SpecCache == Init /\ [][NextCache]_vars

\* a server and a reader taking turns on a ReadBuffer
NextBuf ==
  \/ BufPull
  \/ \E bytes \in Chunks : BufPush(bytes)
  \/ BufGet
  \/ BufPick
  \/ \E n \in 0..(BufferSize + 1) : BufRead(n)
  \/ \E n \in 0..(BufferSize + 1) : BufReadLine(n)
  \/ BufConsume
  \/ BufDiscard
  \/ BufReturn

SpecBuf == Init /\ [][NextBuf]_vars

\* a connection of the OpenTSDB endpoint: its lines arrive in chunks
NextTsdb ==
  \/ \E stream \in TsdbStreams : TsdbConnect(stream)
  \/ TsdbGetNextBuffer
  \/ \E sz \in 1..RDBUF_SIZE : TsdbParseNext(sz)

SpecTsdb == Init /\ [][NextTsdb]_vars

\* a connection of the RESP endpoint: its messages arrive in chunks
NextResp ==
  \/ \E msgs \in RespStreams : RespConnect(msgs)
  \/ RespGetNextBuffer
  \/ \E sz \in 1..RDBUF_SIZE : RespParseNext(sz)

SpecResp == Init /\ [][NextResp]_vars

\* a store lost without a close, restored, and closed by id
NextRescue ==
  \/ \E id \in Ids : ColCreate(id)
  \/ \E id \in Ids, ts \in Timestamps : ColWrite(FALSE, id, ts, PAYLOAD_FLOAT, NoRoots)
  \/ \E force \in BOOLEAN : ColOpen(force, TRUE)
  \/ \E ids \in IdLists : ColCloseIds(ids)

SpecRescue == Init /\ [][NextRescue]_vars

(***************************************************************************)
(* Durability and recovery.                                                *)
(***************************************************************************)
\* acknowledged by a session write and written to the input log on disk
Committed == acked \cap logged

\* stored in a persisted block reachable from the stored rescue points
Persisted(s) == InSeq(Chain(cstore.bs, TopAddr(meta[s.paramid])), EntryOf(s))

\* still in a volume of the input log
InWal(s) == s \in SamplesIn(Flatten(wal))

\* returned by a scan of its series over a range covering its timestamp
Scanned(s) ==
  InSeq(QueryResult(cstore, s.paramid, EntryOf(s).kind, s.timestamp, s.timestamp + 1),
        EntryOf(s))

\* the numbers that replaying the float samples of a log adds to series id
RECURSIVE ReplayedInto(_, _)
ReplayedInto(recs, id) ==
  IF recs = <<>> THEN <<>>
  ELSE (IF Head(recs).rec = "sample" /\ Head(recs).sample.paramid = id
        THEN <<NumEntry(Head(recs).sample.timestamp, Head(recs).sample.float64)>>
        ELSE <<>>) \o ReplayedInto(Tail(recs), id)

FloatOnly(recs, id) ==
  \A i \in DOMAIN recs :
    (recs[i].rec = "sample" /\ recs[i].sample.paramid = id)
       => recs[i].sample.type = PAYLOAD_FLOAT

\* C1 (as claimed): every committed sample is in a persisted block reachable
\* from the stored rescue points of its series, or is still in the input log
\* (which recovery replays), in every state before and after a crash and a
\* recovery.
C1_Durability == \A s \in Committed : Persisted(s) \/ InWal(s)

\* C1 restricted to float samples (holds; the event samples are what breaks C1)
C1_DurabilityFloat ==
  \A s \in Committed : s.type = PAYLOAD_FLOAT => Persisted(s) \/ InWal(s)

\* C2 (as claimed): after _kill and run_recovery a scan of its series returns
\* every committed sample, and the name of its series maps to the same id as
\* before the crash.
C2_RecoveredState ==
  last.op = "recover" =>
    \A s \in Committed :
      /\ Scanned(s)
      /\ \E n \in Names : last.before[n] = s.paramid /\ index[n] = s.paramid

\* C2 restricted to float samples (holds)
C2_RecoveredStateFloat ==
  last.op = "recover" =>
    \A s \in Committed : s.type = PAYLOAD_FLOAT =>
      /\ Scanned(s)
      /\ \E n \in Names : last.before[n] = s.paramid /\ index[n] = s.paramid

\* C3 (as claimed): a write in normal mode with a timestamp below the largest
\* timestamp of its series returns FAIL_BAD_VALUE and leaves the contents of
\* the series unchanged, through ColumnStore::write and through both paths of
\* CStoreSession::write.
C3_LateWriteRejected ==
  (last.op = "write" /\ last.sample.timestamp < SeqMax(last.pre)) =>
    /\ last.res = FAIL_BAD_VALUE
    /\ TreeContents(cstore.tree[last.sample.paramid], cstore.bs) = last.pre

\* C3 for float and event samples only (holds)
C3_LateWriteRejectedTyped ==
  (/\ last.op = "write"
   /\ last.sample.type \in {PAYLOAD_FLOAT, PAYLOAD_EVENT}
   /\ last.sample.timestamp < SeqMax(last.pre)) =>
    /\ last.res = FAIL_BAD_VALUE
    /\ TreeContents(cstore.tree[last.sample.paramid], cstore.bs) = last.pre

C10_ReadYourWrites ==
  (last.op = "write" /\ last.session \in Sessions /\ last.res \in Success) =>
    Scanned(last.sample)

\* C10 witness: a successful session write through the cache, nothing
\* published since, and the scan returns the sample
C10_Witness ==
  /\ last.op = "write" /\ last.session \in Sessions
  /\ last.res \in Success /\ last.path = "cached"
  /\ pendingIds # {}
  /\ Scanned(last.sample)

\* C5 (as claimed): table_lock_ is not held while a tree append runs: no
\* thread is inside the append of ColumnStore::write while it holds
\* table_lock_.
C5_NoTableLockInAppend ==
  \A t \in Threads : pc[t] = "appending" => table_lock # t

\* C6: the appends to one tree are serialized, at most one thread is inside
\* the append of a tree at any time, through the cache or through
\* ColumnStore::write, and every append that returned success is in the tree,
\* in the order the appends ended.
C6_AppendsSerialized ==
  /\ \A t1, t2 \in Threads :
       (/\ pc[t1] = "appending" /\ pc[t2] = "appending"
        /\ job[t1].sample.paramid = job[t2].sample.paramid) => t1 = t2
  /\ \A i \in Ids : TreeContents(cstore.tree[i], cstore.bs) = kept[i]

\* C6 witness: one thread is inside an append it reached through its cache
\* while another, which came through ColumnStore::write, waits for the lock
\* of the same tree
C6_Witness ==
  \E t1, t2 \in Threads :
    /\ pc[t1] = "appending" /\ job[t1].path = "cached"
    /\ pc[t2] = "tree_lock" /\ job[t2].path = "store"
    /\ job[t1].sample.paramid = job[t2].sample.paramid
    /\ kept[job[t1].sample.paramid] # <<>>

\* C7: every query, whether it ends well, fails to parse or fails while it
\* runs, gives its cursor exactly one terminating call: none while the query
\* runs, one once it has ended, never two.
C7_OneTermination ==
  /\ cursor.nterm <= 1
  /\ query.state = "running" => cursor.nterm = 0
  /\ query.state = "finished" => cursor.nterm = 1 /\ cursor.done

\* C7 witness: a query that failed while running, after a sample was pushed
C7_Witness ==
  /\ query.state = "finished" /\ cursor.error = ReadError
  /\ cursor.nput > 0 /\ cursor.nterm = 1

\* C8: once complete or set_error has been called on the cursor of a query,
\* no step of that query calls put on it.
C8_NoPutAfterDone ==
  [][(cursor.done /\ query'.n = query.n) => cursor'.nput = cursor.nput]_vars

\* C8 witness: a cursor that was given an error while rows were left to push
C8_Witness ==
  /\ cursor.done /\ cursor.error # StatusOk
  /\ \E k \in DOMAIN query.rows : query.rows[k] = "pass"

\* C9: after a put has answered false, the engine pushes no further sample to
\* the cursor for that query.
C9_Backpressure ==
  [][(cursor.refused /\ query'.n = query.n) => cursor'.nput = cursor.nput]_vars

\* C9 witness: a put has answered false while the query still has a row that
\* passes the filter
C9_Witness ==
  /\ cursor.refused /\ query.state = "running"
  /\ \E k \in DOMAIN query.rows : query.rows[k] = "pass"

(***************************************************************************)
(* Scan queries: order and range.                                          *)
(***************************************************************************)
\* the rows of the last scan that belong to one series
ScanRowsOf(id) == SelectSeq(scan.out, LAMBDA r : r.paramid = id)

\* the place of an id in the id list of the last scan
PosIn(ids, id) == CHOOSE i \in DOMAIN ids : ids[i] = id

Reversed == scan.begin > scan.end

InRange(ts) ==
  IF scan.begin < scan.end THEN scan.begin <= ts /\ ts < scan.end
  ELSE scan.end < ts /\ ts <= scan.begin

Monotone(rows, reversed) ==
  \A k \in 1..(Len(rows) - 1) :
    IF reversed THEN rows[k].timestamp >= rows[k + 1].timestamp
    ELSE rows[k].timestamp <= rows[k + 1].timestamp

\* C11: a scan in TIME order gives its samples with non-decreasing timestamps
\* on an ascending range and non-increasing timestamps on a reversed one,
\* whatever the number of series.
C11_TimeOrder == scan.order = TIME => Monotone(scan.out, Reversed)

\* C11 witness: a reversed TIME scan of two series gave rows of both, with two
\* different timestamps
C11_Witness ==
  /\ scan.order = TIME /\ Reversed /\ Len(scan.ids) >= 2
  /\ \E j, k \in DOMAIN scan.out :
       /\ scan.out[j].paramid # scan.out[k].paramid
       /\ \E l \in DOMAIN scan.out : scan.out[l].timestamp # scan.out[j].timestamp

\* C12: a scan in SERIES order gives the samples of each series as one block,
\* and the blocks come in the order of the id list of the query, on ascending
\* and on reversed ranges.
C12_SeriesOrder ==
  scan.order = SERIES =>
    \A j, k \in DOMAIN scan.out :
      j < k => PosIn(scan.ids, scan.out[j].paramid) <= PosIn(scan.ids, scan.out[k].paramid)

\* C12 witness: a reversed SERIES scan whose id list is not ascending gave rows
\* of both series
C12_Witness ==
  /\ scan.order = SERIES /\ Reversed /\ Len(scan.ids) >= 2
  /\ scan.ids[1] > scan.ids[2]
  /\ Len(scan.out) >= 3
  /\ \E j, k \in DOMAIN scan.out : scan.out[j].paramid # scan.out[k].paramid

\* C13 (as claimed): in TIME order, samples of different series with the same
\* timestamp come in ascending id order, on ascending and on reversed ranges.
C13_TiesAscending ==
  scan.order = TIME =>
    \A k \in 1..(Len(scan.out) - 1) :
      scan.out[k].timestamp = scan.out[k + 1].timestamp
        => scan.out[k].paramid <= scan.out[k + 1].paramid

\* C13 (amended): in TIME order, samples of different series with the same
\* timestamp come in ascending id order on an ascending range and in
\* descending id order on a reversed range.
C13_TiesByDirection ==
  scan.order = TIME =>
    \A k \in 1..(Len(scan.out) - 1) :
      scan.out[k].timestamp = scan.out[k + 1].timestamp
        => IF Reversed THEN scan.out[k].paramid >= scan.out[k + 1].paramid
           ELSE scan.out[k].paramid <= scan.out[k + 1].paramid

\* C13 witness: a reversed TIME scan gave two samples of different series with
\* the same timestamp
C13_Witness ==
  /\ scan.order = TIME /\ Reversed
  /\ \E k \in 1..(Len(scan.out) - 1) :
       /\ scan.out[k].timestamp = scan.out[k + 1].timestamp
       /\ scan.out[k].paramid # scan.out[k + 1].paramid

\* C14: a scan with begin > end gives, for each series, exactly the written
\* samples with a timestamp in (end, begin], in descending timestamp order; a
\* scan with begin < end gives exactly those in [begin, end), ascending.
C14_RangeScan ==
  scan.begin # scan.end =>
    \A i \in DOMAIN scan.ids :
      LET id == scan.ids[i]
          rows == ScanRowsOf(id)
          written == scan.written[id]
      IN /\ \A ts \in {rows[k].timestamp : k \in DOMAIN rows}
                        \cup {written[k].ts : k \in DOMAIN written} :
              Cardinality({k \in DOMAIN rows : rows[k].timestamp = ts})
                = IF InRange(ts)
                  THEN Cardinality({k \in DOMAIN written : written[k].ts = ts})
                  ELSE 0
         /\ \A k \in DOMAIN rows :
              \E j \in DOMAIN written :
                written[j].ts = rows[k].timestamp /\ written[j].val = rows[k].value
         /\ Monotone(rows, Reversed)

\* C14 witness: a reversed scan gave the sample written at its begin and left
\* out the one written at its end
C14_Witness ==
  /\ Reversed
  /\ \E i \in DOMAIN scan.ids :
       /\ \E k \in DOMAIN scan.out :
            scan.out[k].paramid = scan.ids[i] /\ scan.out[k].timestamp = scan.begin
       /\ \E j \in DOMAIN scan.written[scan.ids[i]] :
            scan.written[scan.ids[i]][j].ts = scan.end

(***************************************************************************)
(* Series index: ids and names.                                            *)
(***************************************************************************)
\* the ids the index has issued for a name
IssuedFor(n) == {k \in DOMAIN ihist.issued : ihist.issued[k].name = n}

\* table and inv_table of a matcher are inverse functions
InverseTables(m) ==
  /\ \A n \in Names : match(m, n) # 0 => id2str(m, match(m, n)) = n
  /\ \A i \in IdDom : id2str(m, i) # NoName => match(m, id2str(m, i)) = i

\* every binding of m is a binding of m2
BindingsKept(m, m2) ==
  /\ \A n \in Names : match(m, n) # 0 => match(m2, n) = match(m, n)
  /\ \A i \in IdDom : id2str(m, i) # NoName => id2str(m2, i) = id2str(m, i)

\* C15: when two sessions add the same name, in any interleaving of their
\* steps, both get the same id and the index issues exactly one id for the
\* name.
C15_SameIdOnce ==
  \A n \in Names :
    /\ Cardinality(IssuedFor(n)) <= 1
    /\ \A s \in IdxSessions :
         lm[s].res[n] # 0 =>
           /\ Cardinality(IssuedFor(n)) = 1
           /\ \A k \in IssuedFor(n) : ihist.issued[k].id = lm[s].res[n]
    /\ \A s1, s2 \in IdxSessions :
         (lm[s1].res[n] # 0 /\ lm[s2].res[n] # 0) => lm[s1].res[n] = lm[s2].res[n]

\* C15 witness: both sessions missed the name locally and both added it to
\* the index before either stored the id
C15_Witness ==
  \E n \in Names :
    /\ lm[1].pc = "local" /\ lm[1].name = n
    /\ lm[2].pc = "local" /\ lm[2].name = n
    /\ lm[1].id = lm[2].id /\ lm[1].id # 0

\* C16: the ids issued by add are strictly increasing from 1024: the first new
\* name gets 1024, the next 1025, each new name the id after the last one.
C16_IdsFrom1024 ==
  \A k \in DOMAIN ihist.issued : ihist.issued[k].id = STARTING_SERIES_ID + k - 1

\* C16 witness: two names were added, and one of them was added again
C16_Witness ==
  /\ Len(ihist.issued) >= 2
  /\ ihist.nadds > Len(ihist.issued)

C18_PullOnce ==
  /\ \A n \in Names :
       match(gm, n) # 0 =>
         ihist.delivered[n]
           + Cardinality({k \in DOMAIN gm.names : gm.names[k].name = n}) = 1
  /\ \A n \in Names : match(gm, n) = 0 => ihist.delivered[n] = 0
  /\ ihist.pull.op = "pull" =>
       /\ Len(ihist.pull.buffer) = ihist.pull.since
       /\ gm.names = <<>> \/ ihist.since > 0

\* C18 witness: a pull after a pull, with no new name in between, returned
\* nothing, and a name added before the first pull has been handed out once
C18_Witness ==
  /\ ihist.pull.op = "pull" /\ ihist.npulls >= 2
  /\ ihist.pull.since = 0 /\ ihist.pull.buffer = <<>>
  /\ \E n \in Names : ihist.delivered[n] = 1

(***************************************************************************)
(* Columns: creation and the rescue points a write hands back.             *)
(***************************************************************************)
\* C19: create_new_column(id) returns BadArg when the column exists, created
\* or restored by open_or_restore, and leaves the column and its data as they
\* were; otherwise it inserts a new, initialized column and returns Ok.
C19_CreateColumn ==
  last.op = "create" =>
    IF last.id \in last.before.cols
    THEN last.status = "BadArg" /\ cstore = last.before
    ELSE /\ last.status = "Ok"
         /\ cstore.cols = last.before.cols \cup {last.id}
         /\ cstore.tree[last.id].init
         /\ TreeContents(cstore.tree[last.id], cstore.bs) = <<>>
         /\ cstore.bs = last.before.bs
         /\ \A i \in Ids \ {last.id} : cstore.tree[i] = last.before.tree[i]

\* C19 witness: create_new_column on a column that open_or_restore restored
\* without initializing it, and that holds data
C19_Witness ==
  /\ last.op = "create" /\ last.status = "BadArg"
  /\ ~last.before.tree[last.id].init
  /\ TreeContents(cstore.tree[last.id], cstore.bs) # <<>>

\* C20: ColumnStore::write and CStoreSession::write change the rescue_points of
\* the caller exactly when the result is OK_FLUSH_NEEDED, and then to the
\* roots of the tree; for OK, FAIL_BAD_VALUE and FAIL_BAD_ID they are left as
\* they were.
C20_RescuePointsOnFlush ==
  last.op = "colwrite" =>
    IF last.res = OK_FLUSH_NEEDED
    THEN last.rp = get_roots(cstore.tree[last.sample.paramid])
    ELSE last.rp = last.rp_in

\* C20 witness: a write through the cache of the session answered
\* OK_FLUSH_NEEDED and put the roots in the place of what the caller held
C20_Witness ==
  /\ last.op = "colwrite" /\ last.cached
  /\ last.res = OK_FLUSH_NEEDED
  /\ last.rp_in = StaleRoots /\ last.rp # last.rp_in

\* C20 witness of the other results: rescue points a caller held are the same
\* after a write that answered OK
C20_WitnessOk ==
  /\ last.op = "colwrite" /\ last.res = OK
  /\ last.rp_in = StaleRoots /\ last.rp = StaleRoots

\* C21: open_or_restore(mapping, force_init) on a store that holds none of the
\* ids of the mapping returns Ok, creates one column per id of the mapping and
\* returns exactly the ids whose repair_status is REPAIR, for either value of
\* force_init.
C21_OpenOrRestore ==
  (last.op = "open" /\ last.keys \cap last.before.cols = {}) =>
    /\ last.status = "Ok"
    /\ cstore.cols = last.before.cols \cup last.keys
    /\ last.ids2recover
         = {i \in last.keys : repair_status(last.mapping[i]) = "REPAIR"}

\* C21 witness: an open_or_restore with force_init on a new store, of a
\* mapping with one id in need of repair and one not
C21_Witness ==
  /\ last.op = "open" /\ last.force /\ last.before.cols = {}
  /\ \E i, j \in last.keys :
       /\ repair_status(last.mapping[i]) = "REPAIR" /\ i \in last.ids2recover
       /\ repair_status(last.mapping[j]) = "OK"

\* C21 witness without force_init: an id in need of repair is returned
C21_WitnessLazy ==
  /\ last.op = "open" /\ ~last.force /\ last.before.cols = {}
  /\ last.ids2recover # {} /\ last.ids2recover # last.keys

(***************************************************************************)
(* Replay through recovery_write.                                          *)
(***************************************************************************)
\* what recovery_write is to do with a sample, given the store before it
ReplayedAsTyped(before, sample, allow_duplicates) ==
  IF sample.paramid \notin before.cols THEN [cs |-> before, res |-> FAIL_BAD_ID]
  ELSE TreeAppend(before, sample.paramid, EntryOf(sample), allow_duplicates)

\* C22 (as claimed): recovery_write(sample, allow_duplicates) answers
\* FAIL_BAD_ID for an unknown id, and otherwise appends the sample to its
\* series by its payload type, a float sample as a number and an event sample
\* as its event bytes, with the permissive append.
C22_RecoveryWriteTyped ==
  (last.op = "recovery_write"
     /\ last.sample.type \in {PAYLOAD_FLOAT, PAYLOAD_EVENT}) =>
    LET r == ReplayedAsTyped(last.before, last.sample, last.allow_duplicates)
    IN last.res = r.res /\ cstore = r.cs

\* C22 for float samples only (holds)
C22_RecoveryWriteFloat ==
  (last.op = "recovery_write" /\ last.sample.type = PAYLOAD_FLOAT) =>
    LET r == ReplayedAsTyped(last.before, last.sample, last.allow_duplicates)
    IN last.res = r.res /\ cstore = r.cs

\* C23 (as claimed): every sample handed to StandaloneDatabase::recovery_write
\* is replayed into the column store of the worker through recovery_write
\* with the given allow_duplicates, and the result of the append is what the
\* recovery driver gets back.
C23_SdbReplays ==
  last.op = "sdb_recovery_write" =>
    LET r == CSRecoveryWrite(last.before, last.sample, last.allow_duplicates)
    IN last.res = r.res /\ cstore = r.cs

(***************************************************************************)
(* close(ids), the cache of a write, the operators of a query.             *)
(***************************************************************************)
\* C24 (as claimed): close(ids) returns a mapping that contains the rescue
\* points of every id in ids.
C24_CloseIdsAll ==
  last.op = "close_ids" =>
    \A k \in DOMAIN last.ids : last.ids[k] \in last.keys

\* C24 for the ids whose column exists and is initialized (holds): the
\* mapping has exactly these, each with the rescue points of its closed tree
C24_CloseIdsInitialized ==
  last.op = "close_ids" =>
    /\ last.keys = {i \in last.before.cols : last.before.tree[i].init}
                     \cap {last.ids[k] : k \in DOMAIN last.ids}
    /\ \A i \in last.keys : last.result[i] = get_roots(cstore.tree[i])

\* C25 (as claimed): when a cache is supplied, ColumnStore::write adds the
\* tree of the id of the sample to the cache if the write succeeds and leaves
\* the cache unchanged if it fails with FAIL_BAD_VALUE or FAIL_BAD_ID.
C25_CacheOnSuccess ==
  (last.op = "colwrite" /\ last.with_cache) =>
    last.cache_out = IF last.res \in Success
                     THEN last.cache_in \cup {last.sample.paramid}
                     ELSE last.cache_in

\* C25 for successful writes and unknown ids only (holds)
C25_CacheUnlessLate ==
  (last.op = "colwrite" /\ last.with_cache /\ last.res # FAIL_BAD_VALUE) =>
    last.cache_out = IF last.res \in Success
                     THEN last.cache_in \cup {last.sample.paramid}
                     ELSE last.cache_in

\* the places of an id list at which an operator cannot be made
FailsAt(k) ==
  \/ last.ids[k] \notin last.before.cols
  \/ FnStatus(last.query, last.ids[k], last.filters) # "Ok"

\* the operators of the first n ids, in the order of the list
OperatorsOf(n) == [k \in 1..n |-> [id |-> last.ids[k], op |-> last.query]]

\* C26 (as claimed): scan, filter, aggregate, group_aggregate, group_aggfilter,
\* scan_events and filter_events, called with ids that all have a column,
\* return Ok and append one operator per id to dest, in the order of the list,
\* with every tree initialized; if some id has no column they return NotFound.
C26_OneOperatorPerId ==
  last.op = "iterate" =>
    IF \A k \in DOMAIN last.ids : last.ids[k] \in last.before.cols
    THEN /\ last.status = "Ok"
         /\ last.dest = OperatorsOf(Len(last.ids))
         /\ \A k \in DOMAIN last.ids : cstore.tree[last.ids[k]].init
    ELSE last.status = "NotFound"

\* C26 (amended): the call stops at the first id that has no column, with
\* NotFound, or, for filter and group_aggfilter, that has no entry in filters,
\* with BadArg, dest holding the operators of the ids before it; with no such
\* id it returns Ok and dest holds one operator per id in the order of the
\* list, every tree initialized.
C26_OperatorsUntilFailure ==
  last.op = "iterate" =>
    LET bad == {k \in DOMAIN last.ids : FailsAt(k)} IN
    IF bad = {}
    THEN /\ last.status = "Ok"
         /\ last.dest = OperatorsOf(Len(last.ids))
         /\ \A k \in DOMAIN last.ids : cstore.tree[last.ids[k]].init
    ELSE LET f == CHOOSE k \in bad : \A j \in bad : k <= j IN
         /\ last.status = IF last.ids[f] \in last.before.cols THEN "BadArg"
                          ELSE "NotFound"
         /\ last.dest = OperatorsOf(f - 1)

\* C26 witness: filter on two ids that both have a column, the first tree not
\* yet initialized, filters without the second id: BadArg after one operator
C26_Witness ==
  /\ last.op = "iterate" /\ last.query = "filter" /\ Len(last.ids) = 2
  /\ \A k \in DOMAIN last.ids : last.ids[k] \in last.before.cols
  /\ ~last.before.tree[last.ids[1]].init /\ cstore.tree[last.ids[1]].init
  /\ last.status = "BadArg" /\ Len(last.dest) = 1

\* C26 witness of the claimed case: a scan of two ids in descending order gave
\* two operators in that order
C26_WitnessOk ==
  /\ last.op = "iterate" /\ last.query = "scan" /\ last.status = "Ok"
  /\ Len(last.dest) = 2 /\ last.dest[1].id > last.dest[2].id

(***************************************************************************)
(* Lock guards.                                                            *)
(***************************************************************************)
\* the threads that hold the lock id through a guard
Holders(id) == {t \in Threads : pc[t] = "holding" /\ job[t].lock = id}

\* C27 (as claimed): SharedLock gives shared access: a thread that asks for a
\* SharedLock on an RWLock held only through SharedLocks gets it, so two
\* threads can hold it at the same time; a UniqueLock excludes every other
\* holder, shared or unique.
C27_SharedAndUnique ==
  /\ \A t \in Threads :
       (/\ pc[t] = "entering" /\ job[t].kind = "SharedLock"
        /\ \A u \in Holders(job[t].lock) : job[u].kind = "SharedLock")
         => LockGuard(job[t].kind, tree_lock[job[t].lock], t).ok
  /\ \A t \in Threads :
       (pc[t] = "holding" /\ job[t].kind = "UniqueLock")
         => Holders(job[t].lock) = {t}

\* C27 for UniqueLock only (holds): it excludes every other holder
C27_UniqueExcludes ==
  \A t \in Threads :
    (pc[t] = "holding" /\ job[t].kind = "UniqueLock")
      => Holders(job[t].lock) = {t}

\* ReadLockGuard, which does call rdlock, is held by two threads at once
C27_ReadersShare ==
  \E t, u \in Threads :
    /\ t # u /\ pc[t] = "holding" /\ pc[u] = "holding"
    /\ job[t].lock = job[u].lock
    /\ job[t].kind = "ReadLockGuard" /\ job[u].kind = "ReadLockGuard"

(***************************************************************************)
(* OpenTSDB put: seconds and nanoseconds.                                  *)
(***************************************************************************)
\* 2^32 and 2^32 - 1
TwoTo32 == <<296, 967, 294, 4>>
TwoTo32Less1 == <<295, 967, 294, 4>>

\* v * 10^9
TimesBillion(v) == IF v = <<>> THEN <<>> ELSE <<0, 0, 0>> \o v

\* C28 (as claimed): the put parser takes every integer timestamp below 2^32
\* as seconds and writes it times 10^9, and writes every value of 2^32 or
\* more unchanged.
C28_SecondsBelow2to32 ==
  last.op = "put" =>
    /\ last.parsed.status = "Ok" /\ ~last.parsed.iso
    /\ last.parsed.timestamp = IF Less(last.value, TwoTo32)
                               THEN TimesBillion(last.value) ELSE last.value

\* C28 (amended): the put parser takes every integer timestamp from 1 to
\* 2^32 - 2 as seconds and writes it times 10^9, and writes every value of
\* 2^32 - 1 or more unchanged; the value 0 is not accepted as an integer
\* timestamp: the text goes to the ISO timestamp parser, and the line is an
\* error if that rejects it.
C28_SecondsBelowU32Max ==
  last.op = "put" =>
    IF last.value = <<>>
    THEN IF last.iso_ok THEN last.parsed.status = "Ok" /\ last.parsed.iso
         ELSE last.parsed.status = "ProtocolParserError"
    ELSE /\ last.parsed.status = "Ok" /\ ~last.parsed.iso
         /\ last.parsed.timestamp = IF Less(last.value, TwoTo32Less1)
                                    THEN TimesBillion(last.value) ELSE last.value

\* C28 witness: the value 2^32 - 1 was written unchanged
C28_Witness ==
  /\ last.op = "put" /\ last.value = TwoTo32Less1
  /\ last.parsed.status = "Ok" /\ last.parsed.timestamp = last.value

\* C28 witness of a conversion: 2^32 - 2 seconds became nanoseconds
C28_WitnessSeconds ==
  /\ last.op = "put" /\ last.value = <<294, 967, 294, 4>>
  /\ last.parsed.timestamp = <<0, 0, 0, 294, 967, 294, 4>>

(***************************************************************************)
(* Group-aggregate buckets.                                                *)
(***************************************************************************)
IsAgg == scan.order = "group-aggregate"

\* the samples of the series that the range of the query covers
AggInput ==
  SelectSeq(scan.written[scan.ids[1]],
            LAMBDA e : scan.begin <= e.ts /\ e.ts < scan.end)

\* the tuple in which a sample was counted has the given start
CountedAt(start, e) ==
  \E k \in DOMAIN scan.out :
    /\ scan.out[k].timestamp = start
    /\ scan.out[k].cnt = Cardinality({j \in DOMAIN AggInput :
                           start <= AggInput[j].ts /\ AggInput[j].ts < start + scan.step})
    /\ scan.out[k].min <= e.val

Written == {s.paramid : s \in acked}
Appends == Len(cstore.bs)
NSeries == Cardinality(cstore.cols)

\* the workload of the property: every series has data and no leaf was filled
AmpWorkload == amp.init /\ ~amp.overflow /\ cstore.cols # {} /\ cstore.cols = Written

C30_WitnessNoLog ==
  /\ AmpWorkload /\ ~amp.usewal /\ amp.closed
  /\ NSeries = 2 /\ Appends = 2 /\ nwrites >= 2

(***************************************************************************)
(* The result of ColumnStore::write and what the tree received.            *)
(***************************************************************************)
ContentsNow(id) == TreeContents(cstore.tree[id], cstore.bs)

\* C37 (as claimed): whenever a write returns OK or OK_FLUSH_NEEDED, exactly
\* one value of the sample was appended to the tree of the sample's id, for
\* every payload type of the sample.
C37_SuccessAppendsOne ==
  (last.op = "write" /\ last.res \in Success) =>
    /\ Len(ContentsNow(last.sample.paramid)) = Len(last.pre) + 1
    /\ SubSeq(ContentsNow(last.sample.paramid), 1, Len(last.pre)) = last.pre
    /\ last.sample.type \in {PAYLOAD_FLOAT, PAYLOAD_EVENT} =>
         ContentsNow(last.sample.paramid) = last.pre \o <<EntryOf(last.sample)>>

\* C37 for float and event samples only (holds)
C37_SuccessAppendsOneTyped ==
  (/\ last.op = "write" /\ last.res \in Success
   /\ last.sample.type \in {PAYLOAD_FLOAT, PAYLOAD_EVENT}) =>
    ContentsNow(last.sample.paramid) = last.pre \o <<EntryOf(last.sample)>>

(***************************************************************************)
(* The trees a session caches.                                             *)
(***************************************************************************)
\* C33 (as claimed): in every reachable state each tree referenced from the
\* cache of a session is initialized, also after a close of its column.
C33_CachedInitialized ==
  \A i \in tcache[ColSession] : i \in cstore.cols /\ cstore.tree[i].init

\* C33 right after a float or event write of the session (holds): the tree the
\* write put in the cache, or found there, is initialized
C33_CachedInitializedAtWrite ==
  (/\ last.op = "colwrite" /\ last.session
   /\ last.sample.type \in {PAYLOAD_FLOAT, PAYLOAD_EVENT}) =>
    \A i \in tcache[ColSession] :
      i = last.sample.paramid => i \in cstore.cols /\ cstore.tree[i].init

(***************************************************************************)
(* The rescue points of a tree that open_or_restore repaired and closed.   *)
(***************************************************************************)
\* the columns that a restore repaired and closed and nothing accessed since
RepairedAndClosed(cs) ==
  {i \in cs.cols : cs.rps[i] # NoRoots /\ ~cs.tree[i].init}

\* C39 (as claimed): the rescue points obtained when open_or_restore without
\* force_init repairs and closes a tree are handed to the caller by
\* open_or_restore, or are in the result of a later close of the column, even
\* if the column is not accessed in between.  What open_or_restore returns is
\* a status and the ids to recover (OpenResult), so the close has to have them.
C39_RescuePointsKept ==
  last.op = "close_ids" =>
    \A i \in RepairedAndClosed(last.before) :
      (\E k \in DOMAIN last.ids : last.ids[k] = i) =>
        i \in last.keys /\ last.result[i] = last.before.rps[i]

\* C39, the part that the close shows: a column that was repaired and closed
\* and is closed again by id is missing from the result
C39_LostAtClose ==
  /\ last.op = "close_ids"
  /\ \E i \in RepairedAndClosed(last.before) :
       /\ \E k \in DOMAIN last.ids : last.ids[k] = i
       /\ i \notin last.keys
       /\ meta[i] # last.before.rps[i]

(***************************************************************************)
(* ReadBuffer.                                                             *)
(***************************************************************************)
\* C31: after any sequence of pull, push, read, consume and discard in which
\* every push adds at most BUFFER_SIZE bytes, pull returns a write region of
\* at least BUFFER_SIZE free bytes inside the buffer: size - wpos_ >=
\* BUFFER_SIZE on return.
C31_PullGivesRoom ==
  rdbuf.turn = "filling" =>
    /\ rdbuf.rb.size - rdbuf.rb.wpos >= BufferSize
    /\ rdbuf.rb.wpos = Len(rdbuf.rb.data)

\* C31 witness: a pull that moved the unconsumed bytes to the front
C31_Witness ==
  /\ rdbuf.turn = "filling" /\ rdbuf.rb.cons = 0 /\ rdbuf.rb.rpos > 0
  /\ rdbuf.rb.size = BufferSize * N_BUF /\ rdbuf.pushes >= N_BUF
  /\ rdbuf.rb.wpos < rdbuf.pushes

\* C31 witness: a pull that doubled the buffer
C31_WitnessGrown ==
  /\ rdbuf.turn = "filling" /\ rdbuf.rb.size = 2 * BufferSize * N_BUF
  /\ rdbuf.rb.wpos = BufferSize * N_BUF

\* C36: cons_ <= rpos_ <= wpos_ <= buffer size in every state reached by get,
\* pick, read, read_line, consume, discard and alternating pull and push of at
\* most BUFFER_SIZE bytes; buffers_allocated_ is 0 or 1 and no assertion fails.
C36_Positions ==
  /\ 0 <= rdbuf.rb.cons /\ rdbuf.rb.cons <= rdbuf.rb.rpos
  /\ rdbuf.rb.rpos <= rdbuf.rb.wpos /\ rdbuf.rb.wpos <= rdbuf.rb.size
  /\ rdbuf.rb.buffers_allocated \in {0, 1}
  /\ ~rdbuf.rb.assert_failed

\* C36 witness: after more pushes than buffer_ had regions at first, a
\* read_line found a line and all three positions differ
C36_Witness ==
  /\ rdbuf.pushes > N_BUF /\ rdbuf.n > 0
  /\ 0 < rdbuf.rb.cons /\ rdbuf.rb.cons < rdbuf.rb.rpos
  /\ rdbuf.rb.rpos < rdbuf.rb.wpos

(***************************************************************************)
(* The OpenTSDB parser and the lines it was given.                         *)
(***************************************************************************)
\* a newline-terminated line is in the buffer, not yet read
UnreadLine(rb) == \E k \in (rb.rpos + 1)..rb.wpos : rb.data[k] = NL

\* the first unread line is longer than the line buffer of the worker
LongLineAhead(rb) ==
  /\ rb.wpos - rb.rpos >= LineBufLen
  /\ \A k \in (rb.rpos + 1)..(rb.rpos + LineBufLen) : rb.data[k] # NL

\* C40 (as claimed): the parser never stalls: a parse_next that returns with a
\* newline-terminated line still unread has handled at least one line, so that
\* every line pushed is taken up by that or a later call, also after a line
\* longer than the line buffer and after stats or version.
C40_NoStall ==
  (tsdb.open /\ tsdb.turn = "server" /\ tsdb.error = "" /\ tsdb.sent > 0
   /\ UnreadLine(tsdb.rb)) => tsdb.handled > 0

\* C40 without the long line (holds): a line is left unread only behind an
\* answered stats or version, or behind a line longer than the line buffer
C40_NoStallShortLines ==
  (tsdb.open /\ tsdb.turn = "server" /\ tsdb.error = "" /\ tsdb.sent > 0
   /\ UnreadLine(tsdb.rb) /\ ~LongLineAhead(tsdb.rb)) =>
     tsdb.handled > 0 /\ tsdb.answered > 0

\* the whole stream was pushed, a complete put line waits behind a long line,
\* and no call can follow
C40_Stalled ==
  /\ tsdb.open /\ tsdb.turn = "server" /\ tsdb.error = ""
  /\ tsdb.sent = Len(tsdb.stream) /\ LongLineAhead(tsdb.rb)
  /\ tsdb.written = <<>> /\ tsdb.handled = 0
  /\ Len(tsdb.stream) - tsdb.rb.rpos > LineBufLen + 1


(***************************************************************************)
(* The RESP parser and the messages it was given.                          *)
(***************************************************************************)
\* the offset in the connection at which message m ends
MsgEnd(msgs, m) == Len(BytesOf(SubSeq(msgs, 1, m)))

\* the number a value element stands for
NumOf(tok) == IF IsInt(tok) THEN IntVal(tok) ELSE strtod(tok)

\* the samples a data PDU stands for; a dictionary stands for none
SamplesOf(msg) ==
  [i \in 1..Len(msg.ids) |->
     [paramid |-> msg.ids[i], timestamp |-> msg.ts,
      float64 |-> IF msg.ids[i] > 0 THEN NumOf(msg.vals[i]) ELSE 0,
      event |-> IF msg.ids[i] > 0 THEN "" ELSE msg.vals[i]]]
ExpectedSamples(msgs) == MapConcat([m \in 1..Len(msgs) |-> SamplesOf(msgs[m])])

\* the samples the consumer was given
WrittenSamples ==
  [k \in 1..Len(resp.written) |->
     [paramid |-> resp.written[k].paramid, timestamp |-> resp.written[k].timestamp,
      float64 |-> resp.written[k].float64, event |-> resp.written[k].event]]

\* all bytes of the connection were pushed and the worker has returned
RespDelivered ==
  resp.open /\ resp.turn = "server" /\ resp.sent = Len(BytesOf(resp.msgs))

\* C32 (as claimed): a dictionary is taken only before the other messages of
\* the session: once a sample of a data PDU was written, no call of parse_next
\* changes the dictionary, wherever the chunk boundaries fall.
C32_DictionaryOnlyFirst ==
  [][(resp.open /\ resp.written # <<>>) => resp'.idmap = resp.idmap]_vars

\* a dictionary that began a chunk after a data PDU was taken, and a PDU by
\* its uid was written
C32_LateDictTaken ==
  /\ RespDelivered /\ resp.msgs = StreamLateDict /\ resp.error = ""
  /\ Len(resp.written) = 2 /\ resp.written[2].paramid = EventId

\* the same dictionary in the chunk of the data PDU before it is rejected
C32_LateDictRejected ==
  /\ resp.open /\ resp.msgs = StreamLateDict
  /\ resp.error = "unexpected parameter id format" /\ resp.idmap = <<>>

\* C38 (as claimed): every event sample the parser writes carries the bytes
\* of the value element of its own PDU, whatever the RESP type of the element.
C38_EventOfOwnPdu ==
  \A k \in 1..Len(resp.written) :
    resp.written[k].paramid <= 0 => resp.written[k].event = resp.written[k].own

\* C38 for values sent as strings (holds)
C38_EventOfOwnString ==
  \A k \in 1..Len(resp.written) :
    (resp.written[k].paramid <= 0 /\ TypeOf(resp.written[k].own) = "STRING")
      => resp.written[k].event = resp.written[k].own

\* an event sent as an integer was written with the text of the PDU before it
C38_StaleEvent ==
  /\ RespDelivered /\ resp.msgs = StreamIntEvent /\ Len(resp.written) = 2
  /\ resp.written[2].own = IntTok(2) /\ resp.written[2].event = Text3

\* C34: a PDU is written whole or not at all: every sample written belongs to
\* a well-formed data PDU that lies wholly in the bytes pushed so far, and of
\* each PDU either no sample or the sample of every series of its row is
\* written; an incomplete or a rejected PDU causes no write.
C34_WholePduOrNothing ==
  /\ \A k \in 1..Len(resp.written) :
       \E m \in 1..Len(resp.msgs) :
         /\ resp.msgs[m].kind = "data" /\ resp.msgs[m].ok
         /\ MsgEnd(resp.msgs, m) = resp.written[k].end
         /\ MsgEnd(resp.msgs, m) <= resp.sent
  /\ \A m \in 1..Len(resp.msgs) :
       Cardinality({k \in 1..Len(resp.written) :
                      resp.written[k].end = MsgEnd(resp.msgs, m)})
         \in {0, Len(resp.msgs[m].ids)}

\* C34 witness: the second value of a row was rejected after the first was
\* parsed; only the PDU before it is written
C34_Witness ==
  /\ resp.open /\ resp.msgs = StreamBadRow
  /\ resp.error = "unexpected event format"
  /\ Len(resp.written) = 1 /\ resp.values[1] = 1

\* a row of two values waits for its second value; nothing of it is written
C34_WitnessIncomplete ==
  /\ resp.open /\ resp.msgs = StreamByName /\ resp.turn = "server"
  /\ resp.error = "" /\ Len(resp.written) = 2
  /\ resp.sent = MsgEnd(resp.msgs, 3) - 2

\* C35: for a valid connection (an optional dictionary, then data PDUs) in
\* chunks of at most BUFFER_SIZE bytes, the samples written are at every time
\* the first of the samples of its PDUs, in their order and once each, and all
\* of them when the last chunk was parsed, wherever the chunks end.
C35_ChunkingIndependent ==
  (resp.open /\ resp.msgs \in ValidStreams) =>
    /\ resp.error = ""
    /\ Len(WrittenSamples) <= Len(ExpectedSamples(resp.msgs))
    /\ WrittenSamples = SubSeq(ExpectedSamples(resp.msgs), 1, Len(WrittenSamples))
    /\ RespDelivered => WrittenSamples = ExpectedSamples(resp.msgs)

\* C35 witness: a connection whose dictionary made buffer_ grow was parsed to
\* its end
C35_Witness ==
  /\ RespDelivered /\ resp.msgs = StreamByUid
  /\ resp.rb.size > N_BUF * RDBUF_SIZE
  /\ Len(resp.written) = 2

\* a connection parsed to its end after buffer_ was rotated
C35_WitnessRotated ==
  /\ RespDelivered /\ resp.msgs = StreamByName
  /\ resp.rb.wpos < resp.sent /\ resp.rb.size = N_BUF * RDBUF_SIZE
  /\ Len(resp.written) = 4

====
